---- MODULE Spec2Model ----
(***************************************************************************)
(* Model of the cost aggregation and change-detection engine of pacioli    *)
(* (src/pacioli/managers.py): CostManager.get_change_in_accounts,          *)
(* CostManager.get_change_in_projects and CostManager._get_project_change. *)
(*                                                                         *)
(* Costs are integers counted in units of 0.005 currency units, so that    *)
(* the threshold 0.01 of managers.py:341 is the integer 2 and a cost below *)
(* the threshold (0.005, as in the spec's threshold example) is 1.         *)
(* A percentage is an integer number of tenths of a percent, which is the  *)
(* precision round(x, 1) keeps.                                            *)
(* Dates are [month, day] records of one year; the two months are those of *)
(* the test fixtures (October and November 2022).                          *)
(***************************************************************************)
EXTENDS Integers, Sequences, FiniteSets, TLC

VARIABLES
    \* the cost change calls: the fetched periods, the reference date, the outcomes
    results, most_recent_full_date, account_change_data, project_change_data,
    \* the period calculator: the instant given and the three dates returned
    now, month_starts,
    \* the display id of a project result: the raw group key and the id derived
    raw_id, display_id,
    \* one call of _collect_account_cost: the arguments, the pages the service
    \* holds, the requests sent, the last response, the results so far, the
    \* position in the function
    period, pages, requests, response, all_results, pc,
    \* get_period_total_tax: the periods grouped by record type, the total
    tax_results, total_tax,
    \* get_projectid_itemized_totals: start and end, the periods grouped by
    \* project and service, the breakdown setting, the answer to the breakdown
    \* query, the time periods requested, the totals returned
    start_end, service_results, breakdown_ec2_other, breakdown_response,
    time_periods, itemized_totals,
    \* the lists ReportManager returns
    accounts_report, projectid_report, itemized_report,
    \* _get_tag_display_mapping: the configured URI, the bucket and the object
    \* it names, the outcome of the call
    mapping_s3_uri, s3_bucket, tag_display_mapping,
    \* post_status: the event, the position in the handler, the values computed so far, the calls made in order
    event, status_pc, status_locals, journal,
    \* the project-details script: the pages the service holds for a query, the outcomes of the two cost functions
    script_pages, project_accounts, project_services,
    \* categorize_ec2_other_usage_type: the usage type given and the name returned
    ec2_usage_type, detailed_name,
    \* a ProjectServicesCost object: its services and its cached total, and the last operation on it with the value it gave
    project_services_cost, last_access,
    \* the report manager instance and the period each of its reports asked for
    manager, report_periods

changeVars == <<results, most_recent_full_date, account_change_data, project_change_data>>

dateVars == <<now, month_starts>>

idVars == <<raw_id, display_id>>

collectVars == <<period, pages, requests, response, all_results, pc>>

taxVars == <<tax_results, total_tax>>

itemizedVars ==
    <<start_end, service_results, breakdown_ec2_other, breakdown_response,
      time_periods, itemized_totals>>

reportVars == <<accounts_report, projectid_report, itemized_report>>

mappingVars == <<mapping_s3_uri, s3_bucket, tag_display_mapping>>

statusVars == <<event, status_pc, status_locals, journal>>

scriptVars == <<script_pages, project_accounts, project_services>>

usageVars == <<ec2_usage_type, detailed_name>>

costVars == <<project_services_cost, last_access>>

managerVars == <<manager, report_periods>>

\* the variables of the operations outside the cost and report managers
laterVars == <<mappingVars, statusVars, scriptVars, usageVars, costVars, managerVars>>

coreVars == <<changeVars, dateVars, idVars, collectVars, taxVars, itemizedVars, reportVars>>

vars == <<coreVars, laterVars>>

\* the variables outside each group
exceptChange == <<dateVars, idVars, collectVars, taxVars, itemizedVars, reportVars, laterVars>>
exceptDate == <<changeVars, idVars, collectVars, taxVars, itemizedVars, reportVars, laterVars>>
exceptId == <<changeVars, dateVars, collectVars, taxVars, itemizedVars, reportVars, laterVars>>
exceptCollect == <<changeVars, dateVars, idVars, taxVars, itemizedVars, reportVars, laterVars>>
exceptTax == <<changeVars, dateVars, idVars, collectVars, itemizedVars, reportVars, laterVars>>
exceptItemized == <<changeVars, dateVars, idVars, collectVars, taxVars, reportVars, laterVars>>

\* the variables of the operations that a specification does not exercise
DatesIdle == now = <<>> /\ month_starts = <<>>

IdIdle == raw_id = <<>> /\ display_id = [computed |-> FALSE, id |-> <<>>]

CollectIdle ==
    /\ period = <<>> /\ pages = <<>> /\ requests = <<>>
    /\ response = 0 /\ all_results = <<>> /\ pc = "idle"

TaxIdle == tax_results = <<>> /\ total_tax = -1

ItemizedIdle ==
    /\ start_end = <<>> /\ service_results = <<>>
    /\ breakdown_ec2_other = FALSE /\ breakdown_response = <<>>
    /\ time_periods = <<>>
    /\ itemized_totals = [status |-> "none", error |-> "", totals |-> <<>>]

NotGenerated == [status |-> "none", error |-> "", report |-> <<>>]

ReportIdle ==
    /\ accounts_report = NotGenerated
    /\ projectid_report = NotGenerated
    /\ itemized_report = NotGenerated

MappingNotCalled == [status |-> "none", error |-> "", mapping |-> <<>>]

MappingIdle ==
    mapping_s3_uri = <<>> /\ s3_bucket = <<>> /\ tag_display_mapping = MappingNotCalled

StatusIdle ==
    event = <<>> /\ status_pc = "idle" /\ status_locals = <<>> /\ journal = <<>>

ScriptNotCalled == [status |-> "none", error |-> "", costs |-> <<>>]

ScriptIdle ==
    script_pages = <<>> /\ project_accounts = ScriptNotCalled /\ project_services = ScriptNotCalled

NotCategorized == [computed |-> FALSE, description |-> "", usage_type |-> <<>>]

UsageIdle ==
    ec2_usage_type = <<>> /\ detailed_name = NotCategorized

CostIdle ==
    project_services_cost = <<>> /\ last_access = <<>>

ManagerIdle ==
    manager = <<>> /\ report_periods = <<>>

LaterIdle == MappingIdle /\ StatusIdle /\ ScriptIdle /\ UsageIdle /\ CostIdle /\ ManagerIdle

\* the variables and the idle operations outside each of these groups
exceptMapping == <<coreVars, statusVars, scriptVars, usageVars, costVars, managerVars>>
OutsideMappingIdle == StatusIdle /\ ScriptIdle /\ UsageIdle /\ CostIdle /\ ManagerIdle
exceptStatus == <<coreVars, mappingVars, scriptVars, usageVars, costVars, managerVars>>
OutsideStatusIdle == MappingIdle /\ ScriptIdle /\ UsageIdle /\ CostIdle /\ ManagerIdle
exceptScript == <<coreVars, mappingVars, statusVars, usageVars, costVars, managerVars>>
OutsideScriptIdle == MappingIdle /\ StatusIdle /\ UsageIdle /\ CostIdle /\ ManagerIdle
exceptUsage == <<coreVars, mappingVars, statusVars, scriptVars, costVars, managerVars>>
OutsideUsageIdle == MappingIdle /\ StatusIdle /\ ScriptIdle /\ CostIdle /\ ManagerIdle
exceptCost == <<coreVars, mappingVars, statusVars, scriptVars, usageVars, managerVars>>
OutsideCostIdle == MappingIdle /\ StatusIdle /\ ScriptIdle /\ UsageIdle /\ ManagerIdle
exceptManager == <<coreVars, mappingVars, statusVars, scriptVars, usageVars, costVars>>
OutsideManagerIdle == MappingIdle /\ StatusIdle /\ ScriptIdle /\ UsageIdle /\ CostIdle

----------------------------------------------------------------------------
(* Bounds of the model *)

\* number of days of the earlier (previous) month in the model
PrevMonthDays == 2

\* number of days of the later (current) month in the model
CurMonthDays == 3

\* largest daily amount of a group, in cost units
MaxAmount == 2

----------------------------------------------------------------------------
(* Program constants and data *)

\* settings.MIN_PERCENTAGE_CHANGE = 0.01, in cost units of 0.005
MIN_PERCENTAGE_CHANGE == 2

PrevMonth == 10
CurMonth == 11

\* the grouping keys ("".join(group["Keys"])) that occur in the fetched data
EntityIds == <<"e1", "e2">>

EntitySet == {EntityIds[i] : i \in 1..Len(EntityIds)}

\* daily amounts an entity can have on one day: the first entity takes every
\* amount, the second one only the smallest
AmountsOf(e) == IF e = EntityIds[1] THEN 1..MaxAmount ELSE {1}

Date(m, d) == [month |-> m, day |-> d]

\* None, for `earliest`, `latest`
NoDate == Date(0, 0)

\* None, for `current` of _get_project_change
NoCost == -1

\* datetime comparison `a < b`
DateLess(a, b) == a.month < b.month \/ (a.month = b.month /\ a.day < b.day)

\* the calendar of the model: the days of the two fetched months in order
Calendar ==
    [i \in 1..(PrevMonthDays + CurMonthDays) |->
        IF i <= PrevMonthDays THEN Date(PrevMonth, i) ELSE Date(CurMonth, i - PrevMonthDays)]

----------------------------------------------------------------------------
(* Helpers *)

Reverse(s) == [i \in 1..Len(s) |-> s[Len(s) + 1 - i]]

\* round(n / d) to the nearest integer, ties to the even one, as Python's round
RoundHalfEven(n, d) ==
    LET q == n \div d
        r == n - q * d
    IN  IF 2 * r < d THEN q
        ELSE IF 2 * r > d THEN q + 1
        ELSE IF q % 2 = 0 THEN q ELSE q + 1

\* round((current / previous - 1.0) * 100, 1), in tenths of a percent
\* (previous # 0; `current / previous` raises ZeroDivisionError otherwise)
PercentageChange(current, previous) ==
    RoundHalfEven(1000 * (current - previous), previous)

\* sequence of the elements of a set of dates in ascending order
RECURSIVE SortDates(_)
SortDates(S) ==
    IF S = {} THEN <<>>
    ELSE LET m == CHOOSE x \in S : \A y \in S : ~DateLess(y, x)
         IN  <<m>> \o SortDates(S \ {m})

\* sorted(results["ResultsByTime"], key=sort_by_periodstart)
sort_by_periodstart(periods) ==
    LET starts == {periods[i].Start : i \in 1..Len(periods)}
        order == SortDates(starts)
    IN  [i \in 1..Len(order) |->
            LET j == CHOOSE j \in 1..Len(periods) : periods[j].Start = order[i]
            IN  periods[j]]

\* an empty daily_cumsum
EmptyCumsum == [keys |-> <<>>, cells |-> <<>>]

InKeys(k, keys) == \E i \in 1..Len(keys) : keys[i] = k

\* daily_cumsum[k][month][day] = value
SetCell(cumsum, k, month, day, value) ==
    [keys |-> IF InKeys(k, cumsum.keys) THEN cumsum.keys ELSE Append(cumsum.keys, k),
     cells |-> [x \in (DOMAIN cumsum.cells) \cup {<<k, month, day>>} |->
                  IF x = <<k, month, day>> THEN value ELSE cumsum.cells[x]]]

\* day in daily_cumsum[k][month]
HasCell(cells, k, month, day) == <<k, month, day>> \in DOMAIN cells

\* month in project_data
HasMonth(cells, k, month) == \E x \in DOMAIN cells : x[1] = k /\ x[2] = month

----------------------------------------------------------------------------
(* CostManager.get_change_in_accounts *)

\* the table entry set to the group's amount alone, the running total of the
\* day before left out
AccountAddGroupNoCarry(cumsum, day, group) ==
    SetCell(cumsum, group.Keys, day.month, day.day, group.Amount)

\* one group of one period: the running total of the day before, or 0
\* on day 1 or when the day before has no entry, plus the group's amount
AccountAddGroup(cumsum, day, group) ==
    LET account_id == group.Keys
        previous_day == day.day - 1
        previous_total ==
            IF day.day = 1 \/ ~HasCell(cumsum.cells, account_id, day.month, previous_day)
            THEN 0
            ELSE cumsum.cells[<<account_id, day.month, previous_day>>]
    IN  SetCell(cumsum, account_id, day.month, day.day, previous_total + group.Amount)

RECURSIVE AccountAddGroups(_, _, _, _)
AccountAddGroups(cumsum, day, groups, i) ==
    IF i > Len(groups) THEN cumsum
    ELSE AccountAddGroups(AccountAddGroup(cumsum, day, groups[i]), day, groups, i + 1)

\* the loop over results["ResultsByTime"], in the order fetched; a period
\* after most_recent_full_date is skipped whole
RECURSIVE AccountAggregate(_, _, _, _)
AccountAggregate(periods, mrfd, i, st) ==
    IF i > Len(periods) THEN st
    ELSE LET day == periods[i].Start
         IN  IF DateLess(mrfd, day)
             THEN AccountAggregate(periods, mrfd, i + 1, st)
             ELSE AccountAggregate(periods, mrfd, i + 1,
                    [daily_cumsum |-> AccountAddGroups(st.daily_cumsum, day, periods[i].Groups, 1),
                     earliest |-> IF st.earliest = NoDate \/ DateLess(day, st.earliest)
                                  THEN day ELSE st.earliest,
                     latest |-> IF st.latest = NoDate \/ DateLess(st.latest, day)
                                THEN day ELSE st.latest])

AggregateStart == [daily_cumsum |-> EmptyCumsum, earliest |-> NoDate, latest |-> NoDate]

\* CostManager._get_previous_value
GetPreviousValue(cells, account_id, month, previous_month_day) ==
    IF previous_month_day <= 1 THEN 0
    ELSE IF ~HasCell(cells, account_id, month, previous_month_day) THEN 0
    ELSE cells[<<account_id, month, previous_month_day>>]

\* the outcome of one entity's computation: the change data built, or the
\* exception raised
Success(change) == [error |-> "", change |-> change]

Failure(error) == [error |-> error, change |-> <<>>]

\* the threshold tested on the current cost only
AccountChangeIsComputedCurrentOnly(current, previous) ==
    current >= MIN_PERCENTAGE_CHANGE

\* `current >= MIN_PERCENTAGE_CHANGE and previous >= MIN_PERCENTAGE_CHANGE`
AccountChangeIsComputed(current, previous) ==
    current >= MIN_PERCENTAGE_CHANGE /\ previous >= MIN_PERCENTAGE_CHANGE

\* the body of `for account_id in daily_cumsum`
AccountChangeOf(cells, account_id, earliest, latest) ==
    IF ~HasCell(cells, account_id, latest.month, latest.day)
    THEN Failure("KeyError")
    ELSE
    LET current == cells[<<account_id, latest.month, latest.day>>]
        previous_month_day ==
            IF ~HasCell(cells, account_id, earliest.month, latest.day)
            THEN latest.day - 1 ELSE latest.day
        previous == GetPreviousValue(cells, account_id, earliest.month, previous_month_day)
        computed == AccountChangeIsComputed(current, previous)
    IN  IF computed /\ previous = 0
        THEN Failure("ZeroDivisionError")
        ELSE Success([id |-> account_id,
                      date |-> latest,
                      current_cost |-> current,
                      previous_cost |-> previous,
                      percentage_change |->
                          IF computed THEN PercentageChange(current, previous) ELSE 0])

\* the outcome of a call: the list returned, or the exception raised;
\* daily_cumsum is the table the call built
Returned(cumsum, changes) ==
    [status |-> "returned", error |-> "", daily_cumsum |-> cumsum, changes |-> changes]

Raised(cumsum, error) ==
    [status |-> "raised", error |-> error, daily_cumsum |-> cumsum, changes |-> <<>>]

NotCalled == [status |-> "none", error |-> "", daily_cumsum |-> <<>>, changes |-> <<>>]

\* the first exception among the per-entity computations, "" when none
FirstError(items) ==
    IF \E i \in 1..Len(items) : items[i].error # ""
    THEN items[CHOOSE i \in 1..Len(items) :
                 /\ items[i].error # ""
                 /\ \A j \in 1..(i - 1) : items[j].error = ""].error
    ELSE ""

get_change_in_accounts(fetched, mrfd) ==
    LET st == AccountAggregate(fetched, mrfd, 1, AggregateStart)
        cumsum == st.daily_cumsum
    IN  IF st.latest = NoDate
        THEN Raised(cumsum.cells, "AttributeError")
        ELSE LET items == [i \in 1..Len(cumsum.keys) |->
                              AccountChangeOf(cumsum.cells, cumsum.keys[i], st.earliest, st.latest)]
             IN  IF FirstError(items) # ""
                 THEN Raised(cumsum.cells, FirstError(items))
                 ELSE Returned(cumsum.cells, [i \in 1..Len(items) |-> items[i].change])

----------------------------------------------------------------------------
(* CostManager.get_change_in_projects and CostManager._get_project_change *)

ProjectAddGroup(cumsum, day, group) ==
    LET project_id == group.Keys
        previous_total ==
            IF day.day = 1 \/ ~HasCell(cumsum.cells, project_id, day.month, day.day - 1)
            THEN 0
            ELSE cumsum.cells[<<project_id, day.month, day.day - 1>>]
    IN  SetCell(cumsum, project_id, day.month, day.day, previous_total + group.Amount)

RECURSIVE ProjectAddGroups(_, _, _, _)
ProjectAddGroups(cumsum, day, groups, i) ==
    IF i > Len(groups) THEN cumsum
    ELSE ProjectAddGroups(ProjectAddGroup(cumsum, day, groups[i]), day, groups, i + 1)

\* the loop over the periods, every period included
RECURSIVE ProjectAggregate(_, _, _)
ProjectAggregate(periods, i, st) ==
    IF i > Len(periods) THEN st
    ELSE LET day == periods[i].Start
         IN  ProjectAggregate(periods, i + 1,
                [daily_cumsum |-> ProjectAddGroups(st.daily_cumsum, day, periods[i].Groups, 1),
                 earliest |-> IF st.earliest = NoDate \/ DateLess(day, st.earliest)
                              THEN day ELSE st.earliest,
                 latest |-> IF st.latest = NoDate \/ DateLess(st.latest, day)
                            THEN day ELSE st.latest])

\* the order in which get_change_in_projects walks the fetched periods
ProjectPeriodOrder(periods) == sort_by_periodstart(periods)

\* `while latest_day >= 1 and latest_day not in project_data[month]: latest_day -= 1`
RECURSIVE WalkBack(_, _, _, _)
WalkBack(cells, project_id, month, latest_day) ==
    IF latest_day >= 1 /\ ~HasCell(cells, project_id, month, latest_day)
    THEN WalkBack(cells, project_id, month, latest_day - 1)
    ELSE latest_day

\* previous_month_day, decremented once when the earliest month lacks it
ProjectPreviousMonthDay(cells, project_id, earliest_date, latest_date) ==
    IF ~HasCell(cells, project_id, earliest_date.month, latest_date.day)
    THEN latest_date.day - 1 ELSE latest_date.day

ProjectChangeIsComputed(current, previous) ==
    current >= MIN_PERCENTAGE_CHANGE /\ previous >= MIN_PERCENTAGE_CHANGE

\* the body of `for project_id_raw, project_data in daily_cumsum.items()`
ProjectChangeOf(cells, project_id_raw, earliest_date, latest_date) ==
    LET previous_month_day ==
            ProjectPreviousMonthDay(cells, project_id_raw, earliest_date, latest_date)
        previous_found ==
            /\ HasMonth(cells, project_id_raw, earliest_date.month)
            /\ HasCell(cells, project_id_raw, earliest_date.month, previous_month_day)
        previous_value == cells[<<project_id_raw, earliest_date.month, previous_month_day>>]
        latest_day == WalkBack(cells, project_id_raw, latest_date.month, latest_date.day)
        change(current, previous, percentage_change) ==
            IF current = NoCost
            THEN Failure("ValidationError")
            ELSE Success([id |-> project_id_raw,
                          date |-> latest_date,
                          current_cost |-> current,
                          previous_cost |-> previous,
                          percentage_change |-> percentage_change])
    IN  IF HasMonth(cells, project_id_raw, latest_date.month)
        THEN IF latest_day >= 1
             THEN LET current == cells[<<project_id_raw, latest_date.month, latest_day>>]
                  IN  IF previous_found
                      THEN IF ProjectChangeIsComputed(current, previous_value)
                           THEN IF previous_value = 0
                                THEN Failure("ZeroDivisionError")
                                ELSE change(current, previous_value,
                                            PercentageChange(current, previous_value))
                           ELSE change(current, previous_value, 0)
                      ELSE change(current, 0, 0)
             ELSE change(NoCost, 0, 0)
        ELSE change(0, IF previous_found THEN previous_value ELSE 0, 0)

get_project_change(cumsum, earliest_date, latest_date) ==
    LET items == [i \in 1..Len(cumsum.keys) |->
                     ProjectChangeOf(cumsum.cells, cumsum.keys[i], earliest_date, latest_date)]
    IN  IF FirstError(items) # ""
        THEN Raised(cumsum.cells, FirstError(items))
        ELSE Returned(cumsum.cells, [i \in 1..Len(items) |-> items[i].change])

get_change_in_projects(fetched, mrfd) ==
    LET st == ProjectAggregate(ProjectPeriodOrder(fetched), 1, AggregateStart)
        latest == IF DateLess(mrfd, st.latest) THEN mrfd ELSE st.latest
    IN  IF st.latest = NoDate
        THEN Raised(st.daily_cumsum.cells, "AttributeError")
        ELSE get_project_change(st.daily_cumsum, st.earliest, latest)

----------------------------------------------------------------------------
(* The fetched data and the calls *)

\* the groups of one period: each entity absent or with one of its amounts,
\* in the order of EntityIds (keys are unique within a period)
RECURSIVE GroupLists(_)
GroupLists(i) ==
    IF i > Len(EntityIds) THEN {<<>>}
    ELSE LET rest == GroupLists(i + 1)
         IN  rest \cup {<<[Keys |-> EntityIds[i], Amount |-> a]>> \o r :
                            a \in AmountsOf(EntityIds[i]), r \in rest}

\* the daily periods from the previous month's start on, n of them
RECURSIVE PeriodLists(_)
PeriodLists(n) ==
    IF n = 0 THEN {<<>>}
    ELSE {Append(ps, [Start |-> Calendar[n], Groups |-> g]) :
              ps \in PeriodLists(n - 1), g \in GroupLists(1)}

\* what the billing API returns for a date range that starts at the previous
\* month's start: the daily periods in ascending order of period start
FetchedAscending == UNION {PeriodLists(n) : n \in 0..Len(Calendar)}

\* the same periods when the order of delivery is not relied upon
FetchedAnyOrder == FetchedAscending \cup {Reverse(ps) : ps \in FetchedAscending}

\* the most recent full date is the last day of the calendar or the day before
RecentDates == {Date(CurMonth, CurMonthDays - 1), Date(CurMonth, CurMonthDays)}

Init ==
    /\ results \in FetchedAscending
    /\ most_recent_full_date \in RecentDates
    /\ account_change_data = NotCalled
    /\ project_change_data = NotCalled
    /\ DatesIdle /\ IdIdle /\ CollectIdle
    /\ TaxIdle /\ ItemizedIdle /\ ReportIdle
    /\ LaterIdle

InitAnyOrder ==
    /\ results \in FetchedAnyOrder
    /\ most_recent_full_date \in RecentDates
    /\ account_change_data = NotCalled
    /\ project_change_data = NotCalled
    /\ DatesIdle /\ IdIdle /\ CollectIdle
    /\ TaxIdle /\ ItemizedIdle /\ ReportIdle
    /\ LaterIdle

GetChangeInAccounts ==
    /\ account_change_data.status = "none"
    /\ account_change_data' = get_change_in_accounts(results, most_recent_full_date)
    /\ UNCHANGED <<results, most_recent_full_date, project_change_data>>
    /\ UNCHANGED exceptChange

GetChangeInProjects ==
    /\ project_change_data.status = "none"
    /\ project_change_data' = get_change_in_projects(results, most_recent_full_date)
    /\ UNCHANGED <<results, most_recent_full_date, account_change_data>>
    /\ UNCHANGED exceptChange

Next == GetChangeInAccounts \/ GetChangeInProjects

\* the cost change calls are not exercised
ChangeIdle ==
    /\ results = <<>>
    /\ most_recent_full_date = NoDate
    /\ account_change_data = NotCalled
    /\ project_change_data = NotCalled

Spec == Init /\ [][Next]_vars

SpecAnyOrder == InitAnyOrder /\ [][Next]_vars

----------------------------------------------------------------------------
(* Vocabulary of the properties *)

Outcomes == {account_change_data, project_change_data}

ReturnedOutcomes == {out \in Outcomes : out.status = "returned"}

ChangesOf(out) == {out.changes[i] : i \in 1..Len(out.changes)}

\* the fetched record set has a group of entity e in the period of day d of month m
HasRecord(e, m, d) ==
    \E i \in 1..Len(results) :
        /\ results[i].Start = Date(m, d)
        /\ \E j \in 1..Len(results[i].Groups) : results[i].Groups[j].Keys = e

\* the daily amount of that group
AmountOn(e, m, d) ==
    LET i == CHOOSE i \in 1..Len(results) : results[i].Start = Date(m, d)
        j == CHOOSE j \in 1..Len(results[i].Groups) : results[i].Groups[j].Keys = e
    IN  results[i].Groups[j].Amount

\* the sum of the daily amounts of e over the days 1..n of month m
RECURSIVE SumOfAmounts(_, _, _)
SumOfAmounts(e, m, n) ==
    IF n = 0 THEN 0 ELSE SumOfAmounts(e, m, n - 1) + AmountOn(e, m, n)

\* the periods were delivered in ascending order of period start
DeliveredAscending ==
    \A i \in 1..(Len(results) - 1) : DateLess(results[i].Start, results[i + 1].Start)

\* the entity ids that appear in the fetched record set
FetchedIds ==
    {e \in EntitySet :
        \E i \in 1..Len(results) :
            \E j \in 1..Len(results[i].Groups) : results[i].Groups[j].Keys = e}

\* the month of the earliest fetched period
EarliestMonth == SortDates({results[i].Start : i \in 1..Len(results)})[1].month

\* the nearest day at or before day d of month m with an entry for e, 0 if none
NearestDay(cells, e, m, d) ==
    LET present == {x \in 1..d : HasCell(cells, e, m, x)}
    IN  IF present = {} THEN 0 ELSE CHOOSE x \in present : \A y \in present : y <= x

----------------------------------------------------------------------------
(* C1: for an entity with a record on every day 1..L of the previous and  *)
(* of the current month, L the day of the latest reported date, both      *)
(* reports give current_cost = the sum of its current-month amounts of    *)
(* days 1..L, previous_cost = the sum of its previous-month amounts of    *)
(* days 1..L and, both being at or above the threshold, percentage_change *)
(* = round((current_cost / previous_cost - 1.0) * 100, 1).                *)
C1_FullMonthsChange ==
    \A out \in ReturnedOutcomes : \A c \in ChangesOf(out) :
        ( /\ c.date.month = CurMonth
          /\ \A d \in 1..c.date.day : HasRecord(c.id, PrevMonth, d) /\ HasRecord(c.id, CurMonth, d) )
        => /\ c.current_cost = SumOfAmounts(c.id, CurMonth, c.date.day)
           /\ c.previous_cost = SumOfAmounts(c.id, PrevMonth, c.date.day)
           /\ ( c.current_cost >= MIN_PERCENTAGE_CHANGE /\ c.previous_cost >= MIN_PERCENTAGE_CHANGE
                => c.percentage_change = PercentageChange(c.current_cost, c.previous_cost) )

(* C2: in the account and in the project computation, an entity without   *)
(* an entry on the exact latest day of the latest month gets as           *)
(* current_cost the cumulative value of the nearest earlier day of that   *)
(* month that has an entry, and 0 when no day at or before the latest day *)
(* has one.                                                               *)
C2_CurrentWalksBack ==
    \A out \in Outcomes :
        (out.status # "none" /\ results # <<>>)
        => /\ out.status = "returned"
           /\ \A c \in ChangesOf(out) :
                LET day == NearestDay(out.daily_cumsum, c.id, c.date.month, c.date.day)
                IN  c.current_cost =
                        IF day = 0 THEN 0 ELSE out.daily_cumsum[<<c.id, c.date.month, day>>]

(* C3: in both computations previous_cost is the earliest month's         *)
(* cumulative value at the latest day-of-month L when that day has an     *)
(* entry, else the value at L-1 when that day has one, else 0; with L = 1 *)
(* and a day-1 entry it is the day-1 value, and the percentage change is  *)
(* computed from it.                                                      *)
C3_PreviousAtSameDay ==
    \A out \in ReturnedOutcomes : \A c \in ChangesOf(out) :
        LET L == c.date.day
            expected ==
                IF HasCell(out.daily_cumsum, c.id, EarliestMonth, L)
                THEN out.daily_cumsum[<<c.id, EarliestMonth, L>>]
                ELSE IF HasCell(out.daily_cumsum, c.id, EarliestMonth, L - 1)
                THEN out.daily_cumsum[<<c.id, EarliestMonth, L - 1>>]
                ELSE 0
        IN  /\ c.previous_cost = expected
            /\ ( c.current_cost >= MIN_PERCENTAGE_CHANGE /\ expected >= MIN_PERCENTAGE_CHANGE
                 => c.percentage_change = PercentageChange(c.current_cost, expected) )

(* C4: in every change result percentage_change is 0 whenever             *)
(* current_cost or previous_cost is below MIN_PERCENTAGE_CHANGE, and is   *)
(* round((current / previous - 1.0) * 100, 1) when both are at or above   *)
(* it; no call divides by a zero previous_cost.                           *)
C4_ThresholdSuppression ==
    \A out \in Outcomes :
        /\ out.error # "ZeroDivisionError"
        /\ \A c \in ChangesOf(out) :
              IF c.current_cost < MIN_PERCENTAGE_CHANGE \/ c.previous_cost < MIN_PERCENTAGE_CHANGE
              THEN c.percentage_change = 0
              ELSE c.percentage_change = PercentageChange(c.current_cost, c.previous_cost)

\* a report with a change suppressed by a positive previous cost below the
\* threshold and a change that is computed and differs from 0
C4_Witness ==
    \E out \in ReturnedOutcomes :
        /\ \E c \in ChangesOf(out) :
              /\ c.current_cost >= MIN_PERCENTAGE_CHANGE
              /\ c.previous_cost > 0 /\ c.previous_cost < MIN_PERCENTAGE_CHANGE
              /\ c.percentage_change = 0
        /\ \E c \in ChangesOf(out) :
              /\ c.current_cost >= MIN_PERCENTAGE_CHANGE
              /\ c.previous_cost >= MIN_PERCENTAGE_CHANGE
              /\ c.percentage_change # 0

(* C5: missing data raises no exception: when an entity lacks records on  *)
(* the latest day, in the latest month or in the earliest month, both     *)
(* calls still return, and an entity absent from the latest month gets    *)
(* current_cost 0 and percentage_change 0.                                *)
C5_NoExceptionOnMissingData ==
    \A out \in Outcomes :
        (out.status # "none" /\ results # <<>>)
        => /\ out.status = "returned"
           /\ \A c \in ChangesOf(out) :
                ~HasMonth(out.daily_cumsum, c.id, c.date.month)
                => c.current_cost = 0 /\ c.percentage_change = 0

(* C6: both calls aggregate the fetched periods in ascending order of     *)
(* period start whatever order they are delivered in: the cumulative      *)
(* table and the change results are the same for every permutation of the *)
(* fetched records.                                                       *)
C6_OrderIndependent ==
    \A ps \in {sort_by_periodstart(results), Reverse(results)} :
        /\ account_change_data.status # "none"
           => account_change_data = get_change_in_accounts(ps, most_recent_full_date)
        /\ project_change_data.status # "none"
           => project_change_data = get_change_in_projects(ps, most_recent_full_date)

(* C7: with the periods delivered in ascending date order, every recorded *)
(* (entity e, month m, day d) has table[e][m][d] = amount(e, m, d) when   *)
(* d = 1 or e has no entry for day d-1 of m, and table[e][m][d-1] +       *)
(* amount(e, m, d) otherwise; the day-1 value is the day-1 amount, with   *)
(* no carry-in from the month before.                                     *)
C7_CumulativeRecurrence ==
    DeliveredAscending =>
    \A out \in Outcomes : \A x \in DOMAIN out.daily_cumsum :
        LET e == x[1]
            m == x[2]
            d == x[3]
        IN  /\ HasRecord(e, m, d)
            /\ out.daily_cumsum[x] =
                 IF d = 1 \/ ~HasCell(out.daily_cumsum, e, m, d - 1)
                 THEN AmountOn(e, m, d)
                 ELSE out.daily_cumsum[<<e, m, d - 1>>] + AmountOn(e, m, d)

\* both tables were built from ascending periods and hold, for one entity,
\* a day-1 entry of the second month after a full first month, a day that
\* adds to the day before, and, for another, a day after a gap
C7_Witness ==
    /\ DeliveredAscending
    /\ \A out \in Outcomes :
          /\ out.status # "none"
          /\ \E e \in EntitySet :
                /\ HasCell(out.daily_cumsum, e, PrevMonth, PrevMonthDays)
                /\ HasCell(out.daily_cumsum, e, CurMonth, 1)
                /\ HasCell(out.daily_cumsum, e, CurMonth, 2)
          /\ \E e \in EntitySet :
                /\ HasCell(out.daily_cumsum, e, PrevMonth, 2)
                /\ ~HasCell(out.daily_cumsum, e, PrevMonth, 1)

(* C8: with non-negative amounts, for a fixed entity and month the table  *)
(* values are non-decreasing as the day increases over all days that have *)
(* an entry, also across a gap: the first present day after a gap holds   *)
(* at least the value of the last present day before it.                  *)
C8_MonotoneAcrossGaps ==
    \A out \in Outcomes : \A x, y \in DOMAIN out.daily_cumsum :
        (x[1] = y[1] /\ x[2] = y[2] /\ x[3] < y[3])
        => out.daily_cumsum[x] <= out.daily_cumsum[y]

(* C9: after aggregating any fetched record set with non-negative         *)
(* amounts, table[E][M][d] >= table[E][M][d-1] for every entity E, month  *)
(* M and day d >= 2 such that d-1 and d both have entries, in the account *)
(* table and in the project table.                                        *)
C9_MonotoneConsecutiveDays ==
    \A out \in Outcomes : \A x \in DOMAIN out.daily_cumsum :
        (x[3] >= 2 /\ HasCell(out.daily_cumsum, x[1], x[2], x[3] - 1))
        => out.daily_cumsum[x] >= out.daily_cumsum[<<x[1], x[2], x[3] - 1>>]

(* C10: for any well-formed fetched record set, also one without periods  *)
(* or without groups, both calls return exactly one change result per     *)
(* distinct entity id of the records: none omitted, none duplicated, and  *)
(* an empty list for an empty input.                                      *)
C10_OneResultPerEntity ==
    \A out \in Outcomes :
        out.status # "none"
        => /\ out.status = "returned"
           /\ {c.id : c \in ChangesOf(out)} = FetchedIds
           /\ Len(out.changes) = Cardinality(FetchedIds)

----------------------------------------------------------------------------
(* The period calculator: functions._get_month_starts *)

\* first and last year of the instants given to the period calculator
FirstYear == 2019
LastYear == 2020

FullDate(y, m, d) == [year |-> y, month |-> m, day |-> d]

IsLeapYear(y) == (y % 4 = 0 /\ y % 100 # 0) \/ y % 400 = 0

\* the number of days of month m of year y
DaysInMonth(y, m) ==
    IF m = 2 THEN (IF IsLeapYear(y) THEN 29 ELSE 28)
    ELSE IF m \in {4, 6, 9, 11} THEN 30 ELSE 31

\* date - datetime.timedelta(days=1)
MinusOneDay(date) ==
    IF date.day > 1 THEN FullDate(date.year, date.month, date.day - 1)
    ELSE IF date.month > 1
    THEN FullDate(date.year, date.month - 1, DaysInMonth(date.year, date.month - 1))
    ELSE FullDate(date.year - 1, 12, 31)

\* current_datetime.date(): the time of day is dropped
DateOf(datetime) == FullDate(datetime.year, datetime.month, datetime.day)

\* date.replace(day=1)
ReplaceDayOne(date) == FullDate(date.year, date.month, 1)

\* the month before by arithmetic on the month number, the year kept
PreviousMonthStartSameYear(current_month_start) ==
    FullDate(current_month_start.year, current_month_start.month - 1, 1)

\* (current_month_start.replace(day=1) - datetime.timedelta(days=1)).replace(day=1)
PreviousMonthStart(current_month_start) ==
    ReplaceDayOne(MinusOneDay(ReplaceDayOne(current_month_start)))

\* the tuple returned: end_date, current_month_start, previous_month_start
get_month_starts(current_datetime) ==
    LET end_date == DateOf(current_datetime)
        current_month_start == FullDate(end_date.year, end_date.month, 1)
        previous_month_start == PreviousMonthStart(current_month_start)
    IN  [most_recent_full_date |-> end_date,
         current_month_start |-> current_month_start,
         previous_month_start |-> previous_month_start]

\* the instants: every day of the years, at the first and at the last hour
Instants ==
    {[year |-> y, month |-> m, day |-> d, hour |-> h] :
        y \in FirstYear..LastYear, m \in 1..12, d \in 1..31, h \in {0, 23}} \cap
    {i \in [year : FirstYear..LastYear, month : 1..12, day : 1..31, hour : {0, 23}] :
        i.day <= DaysInMonth(i.year, i.month)}

InitMonthStarts ==
    /\ now \in Instants
    /\ month_starts = <<>>
    /\ ChangeIdle /\ IdIdle /\ CollectIdle
    /\ TaxIdle /\ ItemizedIdle /\ ReportIdle
    /\ LaterIdle

GetMonthStarts ==
    /\ month_starts = <<>>
    /\ month_starts' = get_month_starts(now)
    /\ UNCHANGED <<now, exceptDate>>

NextMonthStarts == GetMonthStarts

SpecMonthStarts == InitMonthStarts /\ [][NextMonthStarts]_vars

(* C17: the most recent full date is the date of `now` when now's         *)
(* day-of-month is 1, and the date of `now` minus one day for every other *)
(* day-of-month.                                                          *)
C17_MostRecentFullDate ==
    month_starts # <<>>
    => month_starts.most_recent_full_date =
         IF now.day = 1 THEN DateOf(now) ELSE MinusOneDay(DateOf(now))

(* C18: for every input date current_month_start is day 1 of the month of *)
(* the returned full date and previous_month_start is day 1 of the        *)
(* calendar month immediately before it, also across a year boundary      *)
(* (January gives December 1 of the year before) and whatever the lengths *)
(* of the two months.                                                     *)
C18_MonthStarts ==
    month_starts # <<>>
    => LET full == month_starts.most_recent_full_date
           cur == month_starts.current_month_start
           prev == month_starts.previous_month_start
       IN  /\ cur = FullDate(full.year, full.month, 1)
           /\ prev.day = 1
           /\ IF cur.month = 1
              THEN prev.year = cur.year - 1 /\ prev.month = 12
              ELSE prev.year = cur.year /\ prev.month = cur.month - 1

\* the calculator was called for a day of January that is not the first
C18_Witness ==
    /\ month_starts # <<>>
    /\ now.month = 1 /\ now.day > 1
    /\ month_starts.previous_month_start = FullDate(now.year - 1, 12, 1)

----------------------------------------------------------------------------
(* The display id of a project result: ProjectCostChange.id.  A string is *)
(* the sequence of its characters.                                        *)

\* the longest tag value
MaxTagLen == 3

\* the characters of the tag values
TagChars == {"a", "b", " ", "$"}

\* "ProjectId$"
PROJECT_ID_PREFIX == <<"P", "r", "o", "j", "e", "c", "t", "I", "d", "$">>

\* "nothing_project_tag"
NOTHING_PROJECT_TAG ==
    <<"n", "o", "t", "h", "i", "n", "g", "_",
      "p", "r", "o", "j", "e", "c", "t", "_", "t", "a", "g">>

StartsWith(s, old) == Len(s) >= Len(old) /\ SubSeq(s, 1, Len(old)) = old

\* s without its first n characters
Drop(s, n) == SubSeq(s, n + 1, Len(s))

\* str.replace(old, ""): every occurrence is removed, scanning from the left
RECURSIVE Remove(_, _)
Remove(s, old) ==
    IF s = <<>> THEN <<>>
    ELSE IF StartsWith(s, old) THEN Remove(Drop(s, Len(old)), old)
    ELSE <<Head(s)>> \o Remove(Tail(s), old)

\* str.strip(): leading and trailing whitespace is removed
RECURSIVE Strip(_)
Strip(s) ==
    IF s = <<>> THEN <<>>
    ELSE IF Head(s) = " " THEN Strip(Tail(s))
    ELSE IF s[Len(s)] = " " THEN Strip(SubSeq(s, 1, Len(s) - 1))
    ELSE s

\* self.raw_id.replace("ProjectId$", "").strip()
Id(raw) == Strip(Remove(raw, PROJECT_ID_PREFIX))

\* the strings over TagChars of length n
TagValues(n) == [1..n -> TagChars]

\* the raw group keys of a grouping by the ProjectId tag: "ProjectId$" + value
RawIds == {PROJECT_ID_PREFIX \o v : v \in UNION {TagValues(n) : n \in 0..MaxTagLen}}

InitId ==
    /\ raw_id \in RawIds
    /\ display_id = [computed |-> FALSE, id |-> <<>>]
    /\ ChangeIdle /\ DatesIdle /\ CollectIdle
    /\ TaxIdle /\ ItemizedIdle /\ ReportIdle
    /\ LaterIdle

GetId ==
    /\ ~display_id.computed
    /\ display_id' = [computed |-> TRUE, id |-> Id(raw_id)]
    /\ UNCHANGED <<raw_id, exceptId>>

NextId == GetId

SpecId == InitId /\ [][NextId]_vars

(* C16: the display id of a project result is its raw id with the         *)
(* "ProjectId$" prefix removed, and the raw id "ProjectId$" (the untagged *)
(* value) gets the "no tag" sentinel id, not the empty string.            *)
C16_DisplayId ==
    display_id.computed
    => /\ raw_id # PROJECT_ID_PREFIX
          => display_id.id = Drop(raw_id, Len(PROJECT_ID_PREFIX))
       /\ raw_id = PROJECT_ID_PREFIX
          => display_id.id = NOTHING_PROJECT_TAG /\ display_id.id # <<>>

----------------------------------------------------------------------------
(* Collecting the pages of a query: CostManager._collect_account_cost.    *)
(* A date is its day number (date.toordinal()); isoformat() keeps the     *)
(* order of the dates.                                                    *)

\* the last day a query may name
MaxDay == 2

\* the most pages the service holds for a query
MaxPages == 3

\* the page tokens; the empty string is a token that is present and empty
PageTokens == {"", "t1", "t2"}

\* the ResultsByTime a page may hold: the names of its periods
PageResults == {<<>>, <<"p1">>, <<"p2">>, <<"p1", "p2">>}

\* a response or request without the NextPageToken key, and one with it
NoToken == [present |-> FALSE, value |-> ""]
Token(t) == [present |-> TRUE, value |-> t]

\* the pages a service may answer with
Pages ==
    {[ResultsByTime |-> r, NextPageToken |-> t] :
        r \in PageResults,
        t \in {NoToken} \cup {Token(v) : v \in PageTokens}}

\* the key is in the response: "NextPageToken" in response
HasNextPageKey(page) == page.NextPageToken.present

\* "NextPageToken" in response and response["NextPageToken"]
HasNextPage(page) == page.NextPageToken.present /\ page.NextPageToken.value # ""

\* the answers of the service to the first, second, ... request of a query;
\* the service ends every query with a page that has no further page
PageChains ==
    {c \in UNION {[1..n -> Pages] : n \in 1..MaxPages} : ~HasNextPage(c[Len(c)])}

\* if start == end: end += datetime.timedelta(days=1)
AdjustedEnd(start, end) == IF start = end THEN end + 1 ELSE end

\* the TimePeriod of the requests of _collect_account_cost
TimePeriod(start, end) == [Start |-> start, End |-> AdjustedEnd(start, end)]

InitCollect ==
    /\ period \in {[start |-> a, end |-> b] : a \in 1..MaxDay, b \in 1..MaxDay}
    /\ period.start <= period.end
    /\ pages \in PageChains
    /\ requests = <<>>
    /\ response = 0
    /\ all_results = <<>>
    /\ pc = "start"
    /\ ChangeIdle /\ DatesIdle /\ IdIdle
    /\ TaxIdle /\ ItemizedIdle /\ ReportIdle
    /\ LaterIdle

\* the first request, without a token, and its results
FirstRequest ==
    /\ pc = "start"
    /\ requests' = <<[TimePeriod |-> TimePeriod(period.start, period.end),
                      NextPageToken |-> NoToken]>>
    /\ response' = 1
    /\ all_results' = pages[1].ResultsByTime
    /\ pc' = "paging"
    /\ UNCHANGED <<period, pages, exceptCollect>>

\* one turn of the while loop: the request for the next page and its results
NextPageRequest ==
    /\ pc = "paging"
    /\ HasNextPage(pages[response])
    /\ requests' = Append(requests,
                          [TimePeriod |-> TimePeriod(period.start, period.end),
                           NextPageToken |-> pages[response].NextPageToken])
    /\ response' = response + 1
    /\ all_results' = all_results \o pages[response + 1].ResultsByTime
    /\ UNCHANGED <<period, pages, pc, exceptCollect>>

\* the loop ends: return all_results
ReturnAllResults ==
    /\ pc = "paging"
    /\ ~HasNextPage(pages[response])
    /\ pc' = "returned"
    /\ UNCHANGED <<period, pages, requests, response, all_results, exceptCollect>>

NextCollect == FirstRequest \/ NextPageRequest \/ ReturnAllResults

SpecCollect == InitCollect /\ [][NextCollect]_vars

\* the first page without a further page, counting from page i
RECURSIVE LastPageFrom(_, _)
LastPageFrom(chain, i) ==
    IF i >= Len(chain) THEN Len(chain)
    ELSE IF chain[i].NextPageToken = NoToken \/ chain[i].NextPageToken = Token("")
    THEN i
    ELSE LastPageFrom(chain, i + 1)

\* the periods of pages 1..n in page order
RECURSIVE ConcatPages(_, _)
ConcatPages(chain, n) ==
    IF n = 0 THEN <<>> ELSE ConcatPages(chain, n - 1) \o chain[n].ResultsByTime

(* C19: _collect_account_cost sends exactly one request per page, every   *)
(* follow-up request carries the NextPageToken of the response before it, *)
(* it stops after the first response whose token is missing or empty, and *)
(* it returns the ResultsByTime of all pages concatenated in page order.  *)
C19_Pagination ==
    LET last == LastPageFrom(pages, 1)
    IN  /\ pc # "idle" => Len(requests) <= last
        /\ pc = "returned"
           => /\ Len(requests) = last
              /\ requests[1].NextPageToken = NoToken
              /\ \A i \in 2..last :
                    requests[i].NextPageToken = pages[i - 1].NextPageToken
              /\ all_results = ConcatPages(pages, last)

\* a call that returned after three requests, the last page ending with an
\* empty token, with periods on the first and the last page
C19_Witness ==
    /\ pc = "returned"
    /\ Len(requests) = 3
    /\ pages[3].NextPageToken = Token("")
    /\ pages[1].ResultsByTime # <<>>
    /\ pages[3].ResultsByTime # <<>>

----------------------------------------------------------------------------
(* The tax of a period: CostManager.get_period_total_tax *)

\* the most periods of a query grouped by record type
MaxTaxPeriods == 2

\* the most groups of one such period
MaxTaxGroups == 2

\* the groups of a period grouped by RECORD_TYPE: one key, the record type
TaxGroups ==
    {[Keys |-> <<"Tax">>, Amount |-> a] : a \in {1, 2}} \cup
    {[Keys |-> <<"Usage">>, Amount |-> 3]}

TaxPeriods == {[Groups |-> g] : g \in UNION {[1..n -> TaxGroups] : n \in 0..MaxTaxGroups}}

\* "".join(group["Keys"])
RECURSIVE Join(_)
Join(keys) == IF keys = <<>> THEN "" ELSE Head(keys) \o Join(Tail(keys))

\* the groups of every record type are added up
AddAnyGroup(c, group) == c + group.Amount

\* key = "".join(group["Keys"]); if key == "Tax": c[key] += amount
AddTaxGroup(c, group) == IF Join(group.Keys) = "Tax" THEN c + group.Amount ELSE c

\* the inner loop: for group in period["Groups"]
RECURSIVE AddTaxGroups(_, _, _)
AddTaxGroups(c, groups, i) ==
    IF i > Len(groups) THEN c
    ELSE AddTaxGroups(AddTaxGroup(c, groups[i]), groups, i + 1)

\* the outer loop: for period in daily_results["ResultsByTime"]
RECURSIVE AddTaxPeriods(_, _, _)
AddTaxPeriods(c, periods, i) ==
    IF i > Len(periods) THEN c
    ELSE AddTaxPeriods(AddTaxGroups(c, periods[i].Groups, 1), periods, i + 1)

\* c = Counter(); ...; return c["Tax"]
get_period_total_tax(daily_results) == AddTaxPeriods(0, daily_results, 1)

InitTax ==
    /\ tax_results \in UNION {[1..n -> TaxPeriods] : n \in 0..MaxTaxPeriods}
    /\ total_tax = -1
    /\ ChangeIdle /\ DatesIdle /\ IdIdle /\ CollectIdle
    /\ ItemizedIdle /\ ReportIdle
    /\ LaterIdle

GetPeriodTotalTax ==
    /\ total_tax = -1
    /\ total_tax' = get_period_total_tax(tax_results)
    /\ UNCHANGED <<tax_results, exceptTax>>

NextTax == GetPeriodTotalTax

SpecTax == InitTax /\ [][NextTax]_vars

\* the groups of all periods, in order
RECURSIVE AllGroups(_)
AllGroups(periods) ==
    IF periods = <<>> THEN <<>> ELSE Head(periods).Groups \o AllGroups(Tail(periods))

IsTaxRecord(group) == group.Keys = <<"Tax">>

\* the sum of the amounts of the Tax groups of a sequence of groups
RECURSIVE SumOfTax(_)
SumOfTax(groups) ==
    IF groups = <<>> THEN 0
    ELSE (IF IsTaxRecord(Head(groups)) THEN Head(groups).Amount ELSE 0)
         + SumOfTax(Tail(groups))

(* C15: get_period_total_tax returns the sum of the amounts of exactly    *)
(* the groups, over all fetched periods, whose record-type key is "Tax";  *)
(* groups with another key add nothing, and the result is 0 when there is *)
(* no Tax group.                                                          *)
C15_TotalTax ==
    total_tax # -1
    => /\ total_tax = SumOfTax(AllGroups(tax_results))
       /\ (\A i \in 1..Len(tax_results) : \A j \in 1..Len(tax_results[i].Groups) :
              ~IsTaxRecord(tax_results[i].Groups[j]))
          => total_tax = 0

\* the total of two periods that hold both Tax and other groups
C15_Witness ==
    /\ total_tax = 3
    /\ Len(tax_results) = 2
    /\ \A i \in 1..2 : \E j, k \in 1..Len(tax_results[i].Groups) :
          /\ IsTaxRecord(tax_results[i].Groups[j])
          /\ ~IsTaxRecord(tax_results[i].Groups[k])

----------------------------------------------------------------------------
(* The totals per project and service:                                    *)
(* CostManager.get_projectid_itemized_totals.  The dict of Counters is    *)
(* the sequence of its entries in insertion order.                        *)

\* the most periods of a query grouped by project and service
MaxServicePeriods == 2

\* the group keys of the tagged and of the untagged costs
ProjectA == "ProjectId$a"
ProjectB == "ProjectId$"

EC2_OTHER == "EC2 - Other"

\* the groups a period may hold, in the order the service lists them; a
\* period holds each pair of keys at most once
ServiceGroups ==
    <<[Keys |-> <<ProjectA, "Tax">>, Amount |-> 3],
      [Keys |-> <<ProjectA, EC2_OTHER>>, Amount |-> 1],
      [Keys |-> <<ProjectA, "Amazon Simple Storage Service">>, Amount |-> 2],
      [Keys |-> <<ProjectB, EC2_OTHER>>, Amount |-> 1]>>

\* the members of a sequence whose index is in a set, in the order of the sequence
RECURSIVE Pick(_, _, _)
Pick(seq, indices, i) ==
    IF i > Len(seq) THEN <<>>
    ELSE (IF i \in indices THEN <<seq[i]>> ELSE <<>>) \o Pick(seq, indices, i + 1)

ServicePeriods ==
    {[Groups |-> Pick(ServiceGroups, chosen, 1)] : chosen \in SUBSET (1..Len(ServiceGroups))}

\* the groups of the breakdown query: project and usage type
NatGatewayA == [Keys |-> <<ProjectA, "NatGateway-Hours">>, Amount |-> 1]
VolumeUsageA == [Keys |-> <<ProjectA, "APN1-EBS:VolumeUsage.gp3">>, Amount |-> 1]
NatGatewayB == [Keys |-> <<ProjectB, "NatGateway-Hours">>, Amount |-> 1]
NatGatewayFreeA == [Keys |-> <<ProjectA, "NatGateway-Hours">>, Amount |-> 0]

\* the answers to the breakdown query: a malformed response, no period,
\* one or two periods
BreakdownResponses ==
    {[error |-> "KeyError", ResultsByTime |-> <<>>],
     [error |-> "", ResultsByTime |-> <<>>],
     [error |-> "", ResultsByTime |-> <<[Groups |-> <<NatGatewayA, VolumeUsageA>>]>>],
     [error |-> "", ResultsByTime |->
         <<[Groups |-> <<NatGatewayA>>], [Groups |-> <<NatGatewayA, NatGatewayB>>]>>],
     [error |-> "", ResultsByTime |-> <<[Groups |-> <<NatGatewayFreeA>>]>>]}

\* the breakdown query is never sent
NoBreakdownResponse == [error |-> "none", ResultsByTime |-> <<>>]

\* categorize_ec2_other_usage_type for the usage types of the answers: the
\* first pattern of EC2_OTHER_USAGE_TYPE_MAPPING that the usage type contains
categorize_ec2_other_usage_type(usage_type) ==
    IF usage_type = "NatGateway-Hours"
    THEN "EC2 - NAT Gateway Hours (NatGateway-Hours)"
    ELSE "EC2 - Other (" \o usage_type \o ")"

\* the position of a project in the dict, 0 if it has no entry
ProjectIndex(c, projectid) ==
    IF \E i \in 1..Len(c) : c[i].project = projectid
    THEN CHOOSE i \in 1..Len(c) : c[i].project = projectid
    ELSE 0

\* the position of a service in a Counter, 0 if it has no entry
ServiceIndex(services, name) ==
    IF \E j \in 1..Len(services) : services[j].name = name
    THEN CHOOSE j \in 1..Len(services) : services[j].name = name
    ELSE 0

\* services[name], 0 for a missing key
CostOf(services, name) ==
    IF ServiceIndex(services, name) = 0 THEN 0
    ELSE services[ServiceIndex(services, name)].cost

\* counter[name] += amount
CounterAdd(services, name, amount) ==
    IF ServiceIndex(services, name) = 0
    THEN Append(services, [name |-> name, cost |-> amount])
    ELSE [services EXCEPT ![ServiceIndex(services, name)].cost = @ + amount]

\* c[projectid][service] = amount: the amount replaces the total so far
ItemizedSet(c, projectid, service, amount) ==
    LET c1 == IF ProjectIndex(c, projectid) = 0
              THEN Append(c, [project |-> projectid, services |-> <<>>])
              ELSE c
        i == ProjectIndex(c1, projectid)
        j == ServiceIndex(c1[i].services, service)
    IN  IF j = 0
        THEN [c1 EXCEPT ![i].services = Append(@, [name |-> service, cost |-> amount])]
        ELSE [c1 EXCEPT ![i].services[j].cost = amount]

\* c[projectid][service] += amount, on a defaultdict(Counter)
ItemizedAdd(c, projectid, service, amount) ==
    LET c1 == IF ProjectIndex(c, projectid) = 0
              THEN Append(c, [project |-> projectid, services |-> <<>>])
              ELSE c
        i == ProjectIndex(c1, projectid)
    IN  [c1 EXCEPT ![i].services = CounterAdd(@, service, amount)]

\* the loops over daily_results["ResultsByTime"] and period["Groups"]
RECURSIVE ItemizedAddGroups(_, _, _)
ItemizedAddGroups(c, groups, i) ==
    IF i > Len(groups) THEN c
    ELSE ItemizedAddGroups(
             ItemizedAdd(c, groups[i].Keys[1], groups[i].Keys[2], groups[i].Amount),
             groups, i + 1)

RECURSIVE ItemizedAddPeriods(_, _, _)
ItemizedAddPeriods(c, periods, i) ==
    IF i > Len(periods) THEN c
    ELSE ItemizedAddPeriods(ItemizedAddGroups(c, periods[i].Groups, 1), periods, i + 1)

MIN_GROUP_KEYS_COUNT == 2

\* one group of the breakdown answer: groups with fewer than two keys and
\* amounts that are not positive are passed over
BreakdownAddGroup(breakdown, group) ==
    IF Len(group.Keys) >= MIN_GROUP_KEYS_COUNT /\ group.Amount > 0
    THEN ItemizedAdd(breakdown, group.Keys[1],
                     categorize_ec2_other_usage_type(group.Keys[2]), group.Amount)
    ELSE breakdown

RECURSIVE BreakdownAddGroups(_, _, _)
BreakdownAddGroups(breakdown, groups, i) ==
    IF i > Len(groups) THEN breakdown
    ELSE BreakdownAddGroups(BreakdownAddGroup(breakdown, groups[i]), groups, i + 1)

RECURSIVE BreakdownAddPeriods(_, _, _)
BreakdownAddPeriods(breakdown, periods, i) ==
    IF i > Len(periods) THEN breakdown
    ELSE BreakdownAddPeriods(BreakdownAddGroups(breakdown, periods[i].Groups, 1),
                             periods, i + 1)

\* the TimePeriod of the breakdown query: start and end as they were passed
BreakdownTimePeriod(start, end) == [Start |-> start, End |-> end]

\* the service rejects a TimePeriod whose Start is not before its End with a
\* ValidationException, which boto3 raises as a ClientError
IsRejected(time_period) == ~(time_period.Start < time_period.End)

\* a, b = group["Keys"] raises a ValueError for a group whose number of keys
\* is not two; the groups with fewer than `least` keys are never unpacked
UnpackFails(periods, least) ==
    \E i \in 1..Len(periods) : \E j \in 1..Len(periods[i].Groups) :
        Len(periods[i].Groups[j].Keys) # 2 /\ Len(periods[i].Groups[j].Keys) >= least

\* _get_ec2_other_breakdown_for_projects, once the answer is there: a
\* KeyError, ValueError or TypeError gives {}
get_ec2_other_breakdown_for_projects(answer) ==
    IF answer.error # "" \/ UnpackFails(answer.ResultsByTime, MIN_GROUP_KEYS_COUNT) THEN <<>>
    ELSE BreakdownAddPeriods(<<>>, answer.ResultsByTime, 1)

\* projects_with_ec2_other, in the order of the dict
RECURSIVE ProjectsWithEc2Other(_, _)
ProjectsWithEc2Other(c, i) ==
    IF i > Len(c) THEN <<>>
    ELSE (IF ServiceIndex(c[i].services, EC2_OTHER) # 0 /\ CostOf(c[i].services, EC2_OTHER) > 0
          THEN <<c[i].project>> ELSE <<>>) \o ProjectsWithEc2Other(c, i + 1)

\* del counter[name]
CounterDel(services, name) ==
    Pick(services, {j \in 1..Len(services) : services[j].name # name}, 1)

\* for usage_type, cost in ec2_other_breakdown[projectid].items(): c[projectid][usage_type] += cost
RECURSIVE CounterAddAll(_, _, _)
CounterAddAll(services, entries, j) ==
    IF j > Len(entries) THEN services
    ELSE CounterAddAll(CounterAdd(services, entries[j].name, entries[j].cost), entries, j + 1)

\* the breakdown entries are added and "EC2 - Other" is kept
ReplaceEc2OtherKeeping(c, breakdown, projectid) ==
    LET b == ProjectIndex(breakdown, projectid)
        i == ProjectIndex(c, projectid)
    IN  IF b # 0 /\ breakdown[b].services # <<>>
        THEN [c EXCEPT ![i].services = CounterAddAll(@, breakdown[b].services, 1)]
        ELSE c

\* the body of `for projectid in projects_with_ec2_other`
ReplaceEc2Other(c, breakdown, projectid) ==
    LET b == ProjectIndex(breakdown, projectid)
        i == ProjectIndex(c, projectid)
    IN  IF b # 0 /\ breakdown[b].services # <<>>
        THEN [c EXCEPT ![i].services =
                 CounterAddAll(CounterDel(@, EC2_OTHER), breakdown[b].services, 1)]
        ELSE c

RECURSIVE ReplaceEc2OtherAll(_, _, _, _)
ReplaceEc2OtherAll(c, breakdown, projects, k) ==
    IF k > Len(projects) THEN c
    ELSE ReplaceEc2OtherAll(ReplaceEc2Other(c, breakdown, projects[k]),
                            breakdown, projects, k + 1)

ItemizedNotCalled == [status |-> "none", error |-> "", totals |-> <<>>]

\* the call: the outcome and the time periods of the requests it sent
get_projectid_itemized_totals(start, end, daily_results, breakdown, answer) ==
    LET c == ItemizedAddPeriods(<<>>, daily_results, 1)
        fetch == TimePeriod(start, end)
        projects_with_ec2_other == ProjectsWithEc2Other(c, 1)
        query == BreakdownTimePeriod(start, end)
    IN  IF UnpackFails(daily_results, 0)
        THEN [outcome |-> [status |-> "raised", error |-> "ValueError", totals |-> <<>>],
              sent |-> <<fetch>>]
        ELSE IF ~breakdown \/ projects_with_ec2_other = <<>>
        THEN [outcome |-> [status |-> "returned", error |-> "", totals |-> c],
              sent |-> <<fetch>>]
        ELSE IF IsRejected(query)
        THEN [outcome |-> [status |-> "raised", error |-> "ClientError", totals |-> <<>>],
              sent |-> <<fetch, query>>]
        ELSE [outcome |->
                 [status |-> "returned", error |-> "",
                  totals |-> ReplaceEc2OtherAll(
                                 c, get_ec2_other_breakdown_for_projects(answer),
                                 projects_with_ec2_other, 1)],
              sent |-> <<fetch, query>>]

\* the arguments of a call: the answer to a breakdown query exists only
\* where the breakdown is switched on
ItemizedArguments ==
    /\ start_end \in {[start |-> a, end |-> b] : a \in 1..MaxDay, b \in 1..MaxDay}
    /\ start_end.start <= start_end.end
    /\ service_results \in UNION {[1..n -> ServicePeriods] : n \in 0..MaxServicePeriods}
    /\ breakdown_ec2_other \in BOOLEAN
    /\ IF breakdown_ec2_other
       THEN breakdown_response \in BreakdownResponses
       ELSE breakdown_response = NoBreakdownResponse
    /\ time_periods = <<>>
    /\ itemized_totals = ItemizedNotCalled

InitItemized ==
    /\ ItemizedArguments
    /\ ChangeIdle /\ DatesIdle /\ IdIdle /\ CollectIdle
    /\ TaxIdle /\ ReportIdle
    /\ LaterIdle

GetProjectidItemizedTotals ==
    /\ itemized_totals.status = "none"
    /\ LET call == get_projectid_itemized_totals(
                       start_end.start, start_end.end, service_results,
                       breakdown_ec2_other, breakdown_response)
       IN  /\ itemized_totals' = call.outcome
           /\ time_periods' = call.sent
    /\ UNCHANGED <<start_end, service_results, breakdown_ec2_other, breakdown_response>>
    /\ UNCHANGED exceptItemized

\* the sum of the amounts of the groups of a sequence with the given keys
RECURSIVE SumOfPair(_, _, _)
SumOfPair(groups, projectid, service) ==
    IF groups = <<>> THEN 0
    ELSE (IF Head(groups).Keys = <<projectid, service>> THEN Head(groups).Amount ELSE 0)
         + SumOfPair(Tail(groups), projectid, service)

\* the pair of keys is in some fetched period
PairFetched(projectid, service) ==
    \E i \in 1..Len(service_results) : \E j \in 1..Len(service_results[i].Groups) :
        service_results[i].Groups[j].Keys = <<projectid, service>>

(* C13: without the EC2-Other breakdown get_projectid_itemized_totals     *)
(* returns, for every (project, service) pair of any fetched period, the  *)
(* sum of the pair's amounts over all fetched periods, and no pair that   *)
(* is not in the input.                                                   *)
C13_ItemizedTotals ==
    (~breakdown_ec2_other /\ itemized_totals.status # "none")
    => /\ itemized_totals.status = "returned"
       /\ \A i \in 1..Len(service_results) : \A j \in 1..Len(service_results[i].Groups) :
             LET keys == service_results[i].Groups[j].Keys
                 p == ProjectIndex(itemized_totals.totals, keys[1])
             IN  /\ p # 0
                 /\ ServiceIndex(itemized_totals.totals[p].services, keys[2]) # 0
                 /\ CostOf(itemized_totals.totals[p].services, keys[2])
                      = SumOfPair(AllGroups(service_results), keys[1], keys[2])
       /\ \A i \in 1..Len(itemized_totals.totals) :
             \A j \in 1..Len(itemized_totals.totals[i].services) :
                PairFetched(itemized_totals.totals[i].project,
                            itemized_totals.totals[i].services[j].name)

\* totals without breakdown where one pair is in both periods and another
\* pair in one of them only
C13_Witness ==
    /\ ~breakdown_ec2_other
    /\ itemized_totals.status = "returned"
    /\ Len(service_results) = 2
    /\ \E i \in 1..Len(itemized_totals.totals) :
          /\ itemized_totals.totals[i].project = ProjectA
          /\ CostOf(itemized_totals.totals[i].services, EC2_OTHER) = 2
          /\ CostOf(itemized_totals.totals[i].services, "Tax") = 3

(* C20: every request CostManager sends for a call with start <= end has  *)
(* an End strictly after its Start (an end equal to the start is moved    *)
(* one day forward before the request goes out), for the grouped-cost     *)
(* fetch and for the EC2-Other breakdown query of                         *)
(* get_projectid_itemized_totals alike.                                   *)
C20_EndAfterStart ==
    /\ \A i \in 1..Len(requests) : requests[i].TimePeriod.Start < requests[i].TimePeriod.End
    /\ \A i \in 1..Len(time_periods) : time_periods[i].Start < time_periods[i].End

----------------------------------------------------------------------------
(* The reports: ReportManager *)

TAX_SERVICE_NAME == "Tax"

\* an entry goes before the first entry with a larger key
InsertByKeyAscending(sorted, entry) ==
    LET before == {i \in 1..Len(sorted) : \A j \in 1..i : sorted[j].key <= entry.key}
        n == IF before = {} THEN 0 ELSE CHOOSE i \in before : \A j \in before : j <= i
    IN  SubSeq(sorted, 1, n) \o <<entry>> \o SubSeq(sorted, n + 1, Len(sorted))

\* one step of sorted(..., reverse=True): an entry goes before the first
\* entry with a smaller key, so entries with equal keys keep their order
InsertByKey(sorted, entry) ==
    LET before == {i \in 1..Len(sorted) : \A j \in 1..i : sorted[j].key >= entry.key}
        n == IF before = {} THEN 0 ELSE CHOOSE i \in before : \A j \in before : j <= i
    IN  SubSeq(sorted, 1, n) \o <<entry>> \o SubSeq(sorted, n + 1, Len(sorted))

RECURSIVE SortKeyed(_, _, _)
SortKeyed(sorted, entries, i) ==
    IF i > Len(entries) THEN sorted
    ELSE SortKeyed(InsertByKey(sorted, entries[i]), entries, i + 1)

\* sorted(items, key=attrgetter(...), reverse=True), keys[i] being the key
\* of items[i]
SortedDescending(items, keys) ==
    LET keyed == [i \in 1..Len(items) |-> [key |-> keys[i], item |-> items[i]]]
        sorted == SortKeyed(<<>>, keyed, 1)
    IN  [i \in 1..Len(items) |-> sorted[i].item]

\* sorted(data, key=attrgetter("current_cost"), reverse=True); an
\* exception of the change call leaves the report call
ChangeReport(data) ==
    IF data.status = "raised"
    THEN [status |-> "raised", error |-> data.error, report |-> <<>>]
    ELSE [status |-> "returned", error |-> "",
          report |-> SortedDescending(
                         data.changes,
                         [i \in 1..Len(data.changes) |-> data.changes[i].current_cost])]

\* sum(service.cost for service in self.services)
RECURSIVE TotalCost(_)
TotalCost(services) ==
    IF services = <<>> THEN 0 ELSE Head(services).cost + TotalCost(Tail(services))

\* every service is listed
IsListedAlways(service) == TRUE

\* if service_name == TAX_SERVICE_NAME: continue
IsListed(service) == service.name # TAX_SERVICE_NAME

\* the body of `for project_id_raw, services in results.items()`
ProjectServicesCost(entry) ==
    LET service_costs ==
            Pick(entry.services,
                 {j \in 1..Len(entry.services) : IsListed(entry.services[j])}, 1)
        services_sorted_by_cost ==
            SortedDescending(service_costs,
                             [j \in 1..Len(service_costs) |-> service_costs[j].cost])
    IN  [raw_id |-> entry.project,
         services |-> services_sorted_by_cost,
         total_cost |-> TotalCost(services_sorted_by_cost)]

\* the list returned for the totals of get_projectid_itemized_totals
ItemizedReport(totals) ==
    IF totals.status = "raised"
    THEN [status |-> "raised", error |-> totals.error, report |-> <<>>]
    ELSE LET all_project_services ==
                 [i \in 1..Len(totals.totals) |-> ProjectServicesCost(totals.totals[i])]
         IN  [status |-> "returned", error |-> "",
              report |-> SortedDescending(
                             all_project_services,
                             [i \in 1..Len(all_project_services) |->
                                 all_project_services[i].total_cost])]

\* either the change calls or the itemized totals get data, the other side
\* gets an empty answer
InitReport ==
    /\ \/ /\ results \in FetchedAscending
          /\ most_recent_full_date \in RecentDates
          /\ start_end = [start |-> 1, end |-> 1]
          /\ service_results = <<>>
          /\ breakdown_ec2_other = FALSE
          /\ breakdown_response = NoBreakdownResponse
          /\ time_periods = <<>>
          /\ itemized_totals = ItemizedNotCalled
       \/ /\ results = <<>>
          /\ most_recent_full_date = Date(CurMonth, CurMonthDays)
          /\ ItemizedArguments
    /\ account_change_data = NotCalled
    /\ project_change_data = NotCalled
    /\ ReportIdle
    /\ LaterIdle
    /\ DatesIdle /\ IdIdle /\ CollectIdle /\ TaxIdle

GenerateAccountsReport ==
    /\ accounts_report.status = "none"
    /\ account_change_data' = get_change_in_accounts(results, most_recent_full_date)
    /\ accounts_report' = ChangeReport(account_change_data')
    /\ UNCHANGED <<results, most_recent_full_date, project_change_data>>
    /\ UNCHANGED <<projectid_report, itemized_report>>
    /\ UNCHANGED <<dateVars, idVars, collectVars, taxVars, itemizedVars, laterVars>>

GenerateProjectidReport ==
    /\ projectid_report.status = "none"
    /\ project_change_data' = get_change_in_projects(results, most_recent_full_date)
    /\ projectid_report' = ChangeReport(project_change_data')
    /\ UNCHANGED <<results, most_recent_full_date, account_change_data>>
    /\ UNCHANGED <<accounts_report, itemized_report>>
    /\ UNCHANGED <<dateVars, idVars, collectVars, taxVars, itemizedVars, laterVars>>

GenerateProjectidItemizedReport ==
    /\ itemized_report.status = "none"
    /\ LET call == get_projectid_itemized_totals(
                       start_end.start, start_end.end, service_results,
                       breakdown_ec2_other, breakdown_response)
       IN  /\ itemized_totals' = call.outcome
           /\ time_periods' = call.sent
           /\ itemized_report' = ItemizedReport(call.outcome)
    /\ UNCHANGED <<start_end, service_results, breakdown_ec2_other, breakdown_response>>
    /\ UNCHANGED <<accounts_report, projectid_report>>
    /\ UNCHANGED <<changeVars, dateVars, idVars, collectVars, taxVars, laterVars>>

\* the totals, asked for directly or by the itemized report
NextItemized == GetProjectidItemizedTotals \/ GenerateProjectidItemizedReport

SpecItemized == InitItemized /\ [][NextItemized]_vars

NextReport ==
    GenerateAccountsReport \/ GenerateProjectidReport \/ GenerateProjectidItemizedReport

SpecReport == InitReport /\ [][NextReport]_vars

\* the entry of a project in the totals the report was made from
TotalsOf(project_id_raw) ==
    itemized_totals.totals[ProjectIndex(itemized_totals.totals, project_id_raw)].services

(* C12: in every entry of the itemized project report no service named    *)
(* Tax is listed and total_cost is the sum of the costs of the listed     *)
(* services, so that the amount of a Tax entry never adds to the total.   *)
C12_TaxExcluded ==
    itemized_report.status = "returned"
    => \A i \in 1..Len(itemized_report.report) :
          LET entry == itemized_report.report[i]
          IN  /\ \A j \in 1..Len(entry.services) : entry.services[j].name # "Tax"
              /\ entry.total_cost = TotalCost(entry.services)
              /\ entry.total_cost
                   = TotalCost(TotalsOf(entry.raw_id)) - CostOf(TotalsOf(entry.raw_id), "Tax")

\* a report with an entry whose project has a Tax total and other services
C12_Witness ==
    /\ itemized_report.status = "returned"
    /\ \E i \in 1..Len(itemized_report.report) :
          LET entry == itemized_report.report[i]
          IN  /\ CostOf(TotalsOf(entry.raw_id), "Tax") = 6
              /\ entry.total_cost = 3
              /\ Len(entry.services) = 2

\* one sequence is the other in another order
IsPermutation(a, b) ==
    /\ Len(a) = Len(b)
    /\ \E f \in [1..Len(a) -> 1..Len(a)] :
          /\ \A i, j \in 1..Len(a) : i # j => f[i] # f[j]
          /\ \A i \in 1..Len(a) : a[i] = b[f[i]]

\* the services of the totals other than Tax, in the order of the totals
ListedOf(project_id_raw) ==
    Pick(TotalsOf(project_id_raw),
         {j \in 1..Len(TotalsOf(project_id_raw)) : TotalsOf(project_id_raw)[j].name # "Tax"}, 1)

(* C14: every report list is a permutation of the aggregator's output     *)
(* ordered by cost, largest first: the account and the project change     *)
(* reports do not increase in current_cost, the itemized report does not  *)
(* increase in total_cost from project to project, and the services of    *)
(* each project do not increase in cost.                                  *)
C14_ReportsSorted ==
    /\ accounts_report.status = "returned"
       => /\ IsPermutation(accounts_report.report, account_change_data.changes)
          /\ \A i, j \in 1..Len(accounts_report.report) :
                i < j => accounts_report.report[i].current_cost
                           >= accounts_report.report[j].current_cost
    /\ projectid_report.status = "returned"
       => /\ IsPermutation(projectid_report.report, project_change_data.changes)
          /\ \A i, j \in 1..Len(projectid_report.report) :
                i < j => projectid_report.report[i].current_cost
                           >= projectid_report.report[j].current_cost
    /\ itemized_report.status = "returned"
       => /\ IsPermutation([i \in 1..Len(itemized_report.report) |->
                               itemized_report.report[i].raw_id],
                           [i \in 1..Len(itemized_totals.totals) |->
                               itemized_totals.totals[i].project])
          /\ \A i, j \in 1..Len(itemized_report.report) :
                i < j => itemized_report.report[i].total_cost
                           >= itemized_report.report[j].total_cost
          /\ \A i \in 1..Len(itemized_report.report) :
                LET entry == itemized_report.report[i]
                IN  /\ IsPermutation(entry.services, ListedOf(entry.raw_id))
                    /\ \A j, k \in 1..Len(entry.services) :
                          j < k => entry.services[j].cost >= entry.services[k].cost

\* an itemized report whose projects and whose services of the first
\* project are in another order than in the totals
C14_Witness ==
    /\ itemized_report.status = "returned"
    /\ Len(itemized_report.report) = 2
    /\ itemized_report.report[1].raw_id = itemized_totals.totals[2].project
    /\ itemized_report.report[1].total_cost > itemized_report.report[2].total_cost
    /\ Len(itemized_report.report[1].services) = 2
    /\ itemized_report.report[1].services # ListedOf(itemized_report.report[1].raw_id)

----------------------------------------------------------------------------
(* C25: previous_cost is never read from the calendar month that          *)
(* current_cost is read from: when all fetched periods fall within one    *)
(* calendar month, every entity of both reports has previous_cost = 0 and *)
(* percentage_change = 0.0.                                               *)

\* the fetched record set is not empty and all its periods start in one month
SingleMonthFetched ==
    /\ results # <<>>
    /\ \A i, j \in 1..Len(results) : results[i].Start.month = results[j].Start.month

C25_PreviousFromOtherMonth ==
    SingleMonthFetched =>
        \A out \in ReturnedOutcomes : \A c \in ChangesOf(out) :
            c.previous_cost = 0 /\ c.percentage_change = 0

----------------------------------------------------------------------------
(* The cost change of a month that is longer than the month before it *)

\* the days of the current month when it is longer than the previous month
\* (March after February)
LongMonthDays == 4

\* the daily groups of an organisation with a single entity
SingleEntityGroups ==
    {<<>>} \cup {<<[Keys |-> EntityIds[1], Amount |-> a]>> : a \in AmountsOf(EntityIds[1])}

\* one period for every day of the previous month and for the days 1..k of the
\* current month, in ascending order of period start
RECURSIVE LongPeriodLists(_, _)
LongPeriodLists(k, n) ==
    IF n = 0 THEN {<<>>}
    ELSE LET day == IF n <= PrevMonthDays THEN Date(PrevMonth, n)
                    ELSE Date(CurMonth, n - PrevMonthDays)
         IN  {Append(ps, [Start |-> day, Groups |-> g]) :
                  ps \in LongPeriodLists(k, n - 1), g \in SingleEntityGroups}

\* the fetch returns every day from the previous month's start to the most
\* recent full date, day k of the current month
InitLongMonth ==
    /\ \E k \in 2..LongMonthDays :
        /\ results \in LongPeriodLists(k, PrevMonthDays + k)
        /\ most_recent_full_date = Date(CurMonth, k)
    /\ account_change_data = NotCalled
    /\ project_change_data = NotCalled
    /\ DatesIdle /\ IdIdle /\ CollectIdle
    /\ TaxIdle /\ ItemizedIdle /\ ReportIdle
    /\ LaterIdle

SpecLongMonth == InitLongMonth /\ [][Next]_vars

Min(a, b) == IF a <= b THEN a ELSE b

(* C26: for an entity with a record on every day of the earliest month,   *)
(* previous_cost is that month's cumulative value at day min(L, N), L the *)
(* day-of-month of the latest date and N the number of days of the        *)
(* earliest month: the full total of the earliest month whenever L > N.   *)
C26_PreviousAtMinDay ==
    \A out \in ReturnedOutcomes : \A c \in ChangesOf(out) :
        ( /\ c.date.month = CurMonth
          /\ EarliestMonth = PrevMonth
          /\ \A d \in 1..PrevMonthDays : HasRecord(c.id, PrevMonth, d) )
        => c.previous_cost = SumOfAmounts(c.id, PrevMonth, Min(c.date.day, PrevMonthDays))

----------------------------------------------------------------------------
(* Groups whose number of keys is not the number the operation expects *)

\* groups of a query grouped by RECORD_TYPE with no key and with two keys
MalformedTaxGroups ==
    {[Keys |-> <<>>, Amount |-> 1],
     [Keys |-> <<"Tax", "Usage">>, Amount |-> 1],
     [Keys |-> <<"", "Tax">>, Amount |-> 2]}

\* groups of a query grouped by project and service with one key and with
\* three keys
MalformedServiceGroups ==
    {[Keys |-> <<ProjectA>>, Amount |-> 1],
     [Keys |-> <<ProjectA, EC2_OTHER, "NatGateway-Hours">>, Amount |-> 1]}

\* answers to the breakdown query with a group of one key and of three keys
\* after a group of two keys
MalformedBreakdownResponses ==
    {[error |-> "", ResultsByTime |->
         <<[Groups |-> <<NatGatewayA, [Keys |-> <<ProjectA>>, Amount |-> 1]>>]>>],
     [error |-> "", ResultsByTime |->
         <<[Groups |-> <<NatGatewayA,
                         [Keys |-> <<ProjectA, "NatGateway-Hours", "x">>, Amount |-> 1]>>]>>]}

\* the sequences of one or two members of a set
UpToTwoOf(S) == UNION {[1..n -> S] : n \in 1..2}

\* one run fetches the results of the tax total and of the itemized totals;
\* one of the two may hold a malformed group and the other one is empty
InitMalformed ==
    /\ total_tax = -1
    /\ start_end = [start |-> 1, end |-> MaxDay]
    /\ time_periods = <<>>
    /\ itemized_totals = ItemizedNotCalled
    /\ \/ /\ tax_results \in
                 {<<[Groups |-> g]>> : g \in UpToTwoOf(TaxGroups \cup MalformedTaxGroups)}
          /\ service_results = <<>>
          /\ breakdown_ec2_other = FALSE
          /\ breakdown_response = NoBreakdownResponse
       \/ /\ tax_results = <<>>
          /\ service_results \in
                 {<<[Groups |-> g]>> :
                      g \in UpToTwoOf({ServiceGroups[i] : i \in 1..Len(ServiceGroups)}
                                          \cup MalformedServiceGroups)}
          /\ breakdown_ec2_other \in BOOLEAN
          /\ IF breakdown_ec2_other
             THEN breakdown_response \in BreakdownResponses \cup MalformedBreakdownResponses
             ELSE breakdown_response = NoBreakdownResponse
    /\ ChangeIdle /\ DatesIdle /\ IdIdle /\ CollectIdle /\ ReportIdle
    /\ LaterIdle

NextMalformed == GetPeriodTotalTax \/ GetProjectidItemizedTotals

SpecMalformed == InitMalformed /\ [][NextMalformed]_vars

\* some group of the periods has a number of keys other than n
HasKeyCountOtherThan(periods, n) ==
    \E i \in 1..Len(periods) : \E j \in 1..Len(periods[i].Groups) :
        Len(periods[i].Groups[j].Keys) # n

(* C21: a fetched group whose number of keys is not the number the        *)
(* operation expects (one for the tax total, two for the itemized totals  *)
(* and for the EC2-Other breakdown) makes the operation raise: the call   *)
(* never returns a value computed from such a result.                     *)
C21_KeyCountChecked ==
    /\ ~(total_tax # -1 /\ HasKeyCountOtherThan(tax_results, 1))
    /\ (itemized_totals.status # "none" /\ HasKeyCountOtherThan(service_results, 2))
       => itemized_totals.status = "raised"
    /\ ~( /\ itemized_totals.status = "returned"
          /\ Len(time_periods) = 2
          /\ breakdown_response.error = ""
          /\ HasKeyCountOtherThan(breakdown_response.ResultsByTime, 2) )

\* the itemized totals raise for a fetched group of one or of three keys
C21_ItemizedRaises ==
    (itemized_totals.status # "none" /\ HasKeyCountOtherThan(service_results, 2))
    => itemized_totals.status = "raised" /\ itemized_totals.error = "ValueError"

----------------------------------------------------------------------------
(* The display-name mapping: pacioli.functions._get_tag_display_mapping.  *)
(* The object's bytes are a sequence of tokens: the punctuation of JSON,  *)
(* string literals, and a byte that is not valid UTF-8.                   *)

\* no operation of the cost and report managers is exercised
CoreIdle ==
    /\ ChangeIdle /\ DatesIdle /\ IdIdle /\ CollectIdle
    /\ TaxIdle /\ ItemizedIdle /\ ReportIdle

\* the most tokens of an object whose every content is tried
MaxContentLen == 5

StringTokens == {"k1", "k2"}

InvalidByte == "0xFF"

Tokens == {"{", "}", ":", ","} \cup StringTokens \cup {InvalidByte}

\* settings.GROUPBY_TAG_DISPLAY_MAPPING_S3_URI is None unless configured
NoUri == [bucket |-> "", key |-> ""]

\* parse_s3_uri("s3://test-mapping-bucket/testfile.json")
MappingUri == [bucket |-> "test-mapping-bucket", key |-> "testfile.json"]

\* the decoded values: a string and a dict, the dict as the sequence of its
\* items in insertion order
Str(s) == [kind |-> "str", s |-> s, items |-> <<>>]
Dict(items) == [kind |-> "dict", s |-> "", items |-> items]

\* d[key] = value
DictSet(items, key, value) ==
    IF \E i \in 1..Len(items) : items[i].key = key
    THEN LET i == CHOOSE i \in 1..Len(items) : items[i].key = key
         IN  [items EXCEPT ![i].value = value]
    ELSE Append(items, [key |-> key, value |-> value])

ParseFailed == [ok |-> FALSE, value |-> Str(""), next |-> 0]

\* the decoder of json: a value starting at token i, and the members of an
\* object after its opening brace
RECURSIVE ParseValue(_, _)
RECURSIVE ParseMembers(_, _, _)
ParseValue(t, i) ==
    IF i > Len(t) THEN ParseFailed
    ELSE IF t[i] \in StringTokens
    THEN [ok |-> TRUE, value |-> Str(t[i]), next |-> i + 1]
    ELSE IF t[i] = "{"
    THEN IF i + 1 <= Len(t) /\ t[i + 1] = "}"
         THEN [ok |-> TRUE, value |-> Dict(<<>>), next |-> i + 2]
         ELSE ParseMembers(t, i + 1, <<>>)
    ELSE ParseFailed

ParseMembers(t, i, items) ==
    IF i + 1 > Len(t) \/ t[i] \notin StringTokens \/ t[i + 1] # ":" THEN ParseFailed
    ELSE LET v == ParseValue(t, i + 2)
         IN  IF ~v.ok \/ v.next > Len(t) THEN ParseFailed
             ELSE IF t[v.next] = "}"
             THEN [ok |-> TRUE, value |-> Dict(DictSet(items, t[i], v.value)),
                   next |-> v.next + 1]
             ELSE IF t[v.next] = ","
             THEN ParseMembers(t, v.next + 1, DictSet(items, t[i], v.value))
             ELSE ParseFailed

\* json.loads(contents): the whole text is one value
json_loads(contents) ==
    LET r == ParseValue(contents, 1)
    IN  IF r.ok /\ r.next = Len(contents) + 1
        THEN [error |-> "", value |-> r.value]
        ELSE [error |-> "JSONDecodeError", value |-> Str("")]

\* buffer.getvalue().decode("utf8")
decode(bytes) ==
    IF \E i \in 1..Len(bytes) : bytes[i] = InvalidByte
    THEN [error |-> "UnicodeDecodeError", contents |-> <<>>]
    ELSE [error |-> "", contents |-> bytes]

\* the bucket of the URI: missing, without the key, or with the object
NoBucket == [exists |-> FALSE, has_key |-> FALSE, body |-> <<>>]
EmptyBucket == [exists |-> TRUE, has_key |-> FALSE, body |-> <<>>]
BucketWith(bytes) == [exists |-> TRUE, has_key |-> TRUE, body |-> bytes]

\* S3_CLIENT.download_fileobj(Bucket=bucket, Key=key, Fileobj=buffer)
download_fileobj(bucket) ==
    IF bucket.exists /\ bucket.has_key
    THEN [error |-> "", body |-> bucket.body]
    ELSE [error |-> "ClientError", body |-> <<>>]

\* except ClientError: only a failed download is handled
HandledClientError(error) == error = "ClientError"

\* except json.JSONDecodeError, inside except Exception
Handled(error) == error = "JSONDecodeError" \/ error # ""

\* the outcome of the statements in the try blocks
MappingOutcome(error, value) ==
    IF error = "" THEN [status |-> "returned", error |-> "", mapping |-> value]
    ELSE IF Handled(error) THEN [status |-> "returned", error |-> "", mapping |-> Dict(<<>>)]
    ELSE [status |-> "raised", error |-> error, mapping |-> <<>>]

get_tag_display_mapping(uri, bucket) ==
    IF uri = NoUri THEN [status |-> "returned", error |-> "", mapping |-> Dict(<<>>)]
    ELSE LET downloaded == download_fileobj(bucket)
             decoded == decode(downloaded.body)
             loaded == json_loads(decoded.contents)
         IN  IF downloaded.error # "" THEN MappingOutcome(downloaded.error, Str(""))
             ELSE IF decoded.error # "" THEN MappingOutcome(decoded.error, Str(""))
             ELSE MappingOutcome(loaded.error, loaded.value)

\* the value of the last item with the key, at the place of the first one
LastWins(items) ==
    LET firsts == {i \in 1..Len(items) : \A j \in 1..(i - 1) : items[j].key # items[i].key}
        last(i) == CHOOSE j \in 1..Len(items) :
                       /\ items[j].key = items[i].key
                       /\ \A l \in (j + 1)..Len(items) : items[l].key # items[i].key
        kept == Pick(items, firsts, 1)
    IN  [n \in 1..Len(kept) |->
            [key |-> kept[n].key,
             value |-> items[last(CHOOSE i \in firsts : Cardinality({f \in firsts : f <= i}) = n)].value]]

\* the JSON texts of at most n tokens with the value each denotes, by the
\* grammar of JSON: a string, {} or { members }, members being
\* string : value pairs separated by commas
RECURSIVE JsonValuesUpTo(_)
RECURSIVE JsonMembersUpTo(_)
JsonValuesUpTo(n) ==
    IF n < 1 THEN {}
    ELSE {[text |-> <<s>>, value |-> Str(s)] : s \in StringTokens}
         \cup (IF n >= 2 THEN {[text |-> <<"{", "}">>, value |-> Dict(<<>>)]} ELSE {})
         \cup {[text |-> <<"{">> \o m.text \o <<"}">>, value |-> Dict(LastWins(m.items))] :
                   m \in JsonMembersUpTo(n - 2)}

JsonMembersUpTo(n) ==
    IF n < 3 THEN {}
    ELSE LET values == JsonValuesUpTo(n - 2)
             rest == JsonMembersUpTo(n - 4)
             single == {[text |-> <<k, ":">> \o v.text,
                         items |-> <<[key |-> k, value |-> v.value]>>] :
                            k \in StringTokens, v \in values}
         IN  single \cup
             {m \in {[text |-> a.text \o <<",">> \o b.text, items |-> a.items \o b.items] :
                         a \in single, b \in rest} : Len(m.text) <= n}

\* the texts of a mapping of two items are longer than MaxContentLen
JsonTexts == JsonValuesUpTo(MaxContentLen + 4)

\* a text with one token left out
Without(text, i) == SubSeq(text, 1, i - 1) \o SubSeq(text, i + 1, Len(text))

\* the bytes of the object: every sequence of at most MaxContentLen tokens,
\* every JSON text, and every JSON text with one token left out
Contents ==
    UNION {[1..n -> Tokens] : n \in 0..MaxContentLen}
    \cup {x.text : x \in JsonTexts}
    \cup UNION {{Without(x.text, i) : i \in 1..Len(x.text)} : x \in JsonTexts}

InitMapping ==
    /\ \/ mapping_s3_uri = NoUri /\ s3_bucket \in {NoBucket, EmptyBucket}
       \/ mapping_s3_uri = MappingUri /\ s3_bucket \in {NoBucket, EmptyBucket}
       \/ mapping_s3_uri = MappingUri /\ s3_bucket \in {BucketWith(c) : c \in Contents}
    /\ tag_display_mapping = MappingNotCalled
    /\ CoreIdle /\ OutsideMappingIdle

GetTagDisplayMapping ==
    /\ tag_display_mapping.status = "none"
    /\ tag_display_mapping' = get_tag_display_mapping(mapping_s3_uri, s3_bucket)
    /\ UNCHANGED <<mapping_s3_uri, s3_bucket, exceptMapping>>

NextMapping == GetTagDisplayMapping

SpecMapping == InitMapping /\ [][NextMapping]_vars

\* the object's bytes are the text of a JSON value
IsJsonText(bytes) == \E x \in JsonTexts : x.text = bytes

\* the value the text denotes
ValueOfText(bytes) == (CHOOSE x \in JsonTexts : x.text = bytes).value

(* C22: _get_tag_display_mapping never raises; it returns an empty        *)
(* mapping when no URI is configured, when the bucket or the key is       *)
(* missing and when the object's content is not valid JSON, and the       *)
(* decoded key/value pairs when the content is a JSON mapping.            *)
C22_TagDisplayMapping ==
    tag_display_mapping.status # "none"
    => /\ tag_display_mapping.status = "returned"
       /\ ( \/ mapping_s3_uri = NoUri
            \/ ~s3_bucket.exists
            \/ ~s3_bucket.has_key
            \/ ~IsJsonText(s3_bucket.body) )
          => tag_display_mapping.mapping = Dict(<<>>)
       /\ ( /\ mapping_s3_uri # NoUri
            /\ s3_bucket.exists /\ s3_bucket.has_key
            /\ IsJsonText(s3_bucket.body)
            /\ ValueOfText(s3_bucket.body).kind = "dict" )
          => tag_display_mapping.mapping = ValueOfText(s3_bucket.body)

\* a mapping of two keys is returned
C22_Witness ==
    /\ tag_display_mapping.status = "returned"
    /\ s3_bucket.body = <<"{", "k1", ":", "k2", ",", "k2", ":", "k1", "}">>
    /\ tag_display_mapping.mapping =
           Dict(<<[key |-> "k1", value |-> Str("k2")], [key |-> "k2", value |-> Str("k1")]>>)

----------------------------------------------------------------------------
(* One run of the status handler: pacioli.handlers.events.post_status.    *)
(* The journal holds the calls to the report manager and to the slack     *)
(* manager in the order they returned.                                    *)

\* the events: the key post_to_slack may be missing
Events == {[keys |-> {}, post_to_slack |-> TRUE],
           [keys |-> {"post_to_slack"}, post_to_slack |-> TRUE],
           [keys |-> {"post_to_slack"}, post_to_slack |-> FALSE]}

\* what a report call may return: the ids of its entries
ReportValues == {<<>>, <<"e1">>, <<"e1", "e2">>}

\* what the tax total may be
TaxValues == {0, 1}

\* a message is posted whatever the event says
PostAlways(ev) == TRUE

\* event.get("post_to_slack", True)
PostToSlack(ev) == IF "post_to_slack" \in ev.keys THEN ev.post_to_slack ELSE TRUE

NoLocals == [account_totals |-> <<>>, tax |-> 0, project_totals |-> <<>>,
             project_services |-> <<>>]

\* a call of the report manager that returned
Computed(name, value, tax) == [op |-> "computed", name |-> name, value |-> value, tax |-> tax]

\* slack.post_message_to_channel with the blocks made from a report
Posted(name, value, tax) == [op |-> "posted", name |-> name, value |-> value, tax |-> tax]

InitStatus ==
    /\ event \in Events
    /\ status_pc = "accounts"
    /\ status_locals = NoLocals
    /\ journal = <<>>
    /\ CoreIdle /\ OutsideStatusIdle

\* a call to the report manager or to slack raises: the run ends there
Raise ==
    /\ status_pc \notin {"idle", "done", "raised"}
    /\ status_pc \in {"post_accounts", "post_projects", "post_itemized"} => PostToSlack(event)
    /\ status_pc' = "raised"
    /\ UNCHANGED <<event, status_locals, journal, exceptStatus>>

\* account_totals = rm.generate_accounts_report()
AccountsReport ==
    /\ status_pc = "accounts"
    /\ \E value \in ReportValues :
        /\ status_locals' = [status_locals EXCEPT !.account_totals = value]
        /\ journal' = Append(journal, Computed("accounts", value, 0))
    /\ status_pc' = "post_accounts"
    /\ UNCHANGED <<event, exceptStatus>>

\* if post_to_slack: post the account blocks
PostAccounts ==
    /\ status_pc = "post_accounts"
    /\ journal' = IF PostToSlack(event)
                  THEN Append(journal, Posted("accounts", status_locals.account_totals, 0))
                  ELSE journal
    /\ status_pc' = "tax"
    /\ UNCHANGED <<event, status_locals, exceptStatus>>

\* tax = rm.get_period_total_tax()
TaxTotal ==
    /\ status_pc = "tax"
    /\ \E value \in TaxValues :
        /\ status_locals' = [status_locals EXCEPT !.tax = value]
        /\ journal' = Append(journal, Computed("tax", <<>>, value))
    /\ status_pc' = "projects"
    /\ UNCHANGED <<event, exceptStatus>>

\* project_totals = rm.generate_projectid_report()
ProjectsReport ==
    /\ status_pc = "projects"
    /\ \E value \in ReportValues :
        /\ status_locals' = [status_locals EXCEPT !.project_totals = value]
        /\ journal' = Append(journal, Computed("projects", value, 0))
    /\ status_pc' = "post_projects"
    /\ UNCHANGED <<event, exceptStatus>>

\* if post_to_slack: post the project blocks, made with the tax
PostProjects ==
    /\ status_pc = "post_projects"
    /\ journal' = IF PostToSlack(event)
                  THEN Append(journal, Posted("projects", status_locals.project_totals,
                                              status_locals.tax))
                  ELSE journal
    /\ status_pc' = "itemized"
    /\ UNCHANGED <<event, status_locals, exceptStatus>>

\* project_services = rm.generate_projectid_itemized_report()
ItemizedServicesReport ==
    /\ status_pc = "itemized"
    /\ \E value \in ReportValues :
        /\ status_locals' = [status_locals EXCEPT !.project_services = value]
        /\ journal' = Append(journal, Computed("itemized", value, 0))
    /\ status_pc' = "post_itemized"
    /\ UNCHANGED <<event, exceptStatus>>

\* if post_to_slack: post the top-N services blocks
PostItemized ==
    /\ status_pc = "post_itemized"
    /\ journal' = IF PostToSlack(event)
                  THEN Append(journal, Posted("itemized", status_locals.project_services, 0))
                  ELSE journal
    /\ status_pc' = "done"
    /\ UNCHANGED <<event, status_locals, exceptStatus>>

NextStatus ==
    \/ AccountsReport \/ PostAccounts
    \/ TaxTotal \/ ProjectsReport \/ PostProjects
    \/ ItemizedServicesReport \/ PostItemized
    \/ Raise

SpecStatus == InitStatus /\ [][NextStatus]_vars

\* the names of the journal's entries of one kind, in order
RECURSIVE NamesOf(_, _)
NamesOf(entries, op) ==
    IF entries = <<>> THEN <<>>
    ELSE (IF Head(entries).op = op THEN <<Head(entries).name>> ELSE <<>>)
         \o NamesOf(Tail(entries), op)

IsPrefix(s, t) == Len(s) <= Len(t) /\ SubSeq(t, 1, Len(s)) = s

\* the position of the entry of a kind and name, 0 if there is none
PositionOf(op, name) ==
    IF \E i \in 1..Len(journal) : journal[i].op = op /\ journal[i].name = name
    THEN CHOOSE i \in 1..Len(journal) : journal[i].op = op /\ journal[i].name = name
    ELSE 0

\* the report computed after the one of the name
NextReportOf(name) ==
    IF name = "accounts" THEN "tax" ELSE IF name = "projects" THEN "itemized" ELSE ""

(* C24: one run computes the accounts report, the tax total, the projects *)
(* report and the itemized report in this order; the message of a report  *)
(* is posted after that report was computed, carries its value, and is    *)
(* posted before the next report is computed; at most three messages are  *)
(* posted; with post_to_slack false in the event every report is computed *)
(* by the end of the run and no message is posted.                        *)
C24_PostOrder ==
    /\ IsPrefix(NamesOf(journal, "computed"), <<"accounts", "tax", "projects", "itemized">>)
    /\ IsPrefix(NamesOf(journal, "posted"), <<"accounts", "projects", "itemized">>)
    /\ \A i \in 1..Len(journal) :
          journal[i].op = "posted"
          => /\ PositionOf("computed", journal[i].name) \in 1..(i - 1)
             /\ journal[i].value = journal[PositionOf("computed", journal[i].name)].value
             /\ journal[i].name = "projects"
                => journal[i].tax = journal[PositionOf("computed", "tax")].tax
             /\ PositionOf("computed", NextReportOf(journal[i].name)) \in {0} \cup (i + 1)..Len(journal)
    /\ ("post_to_slack" \in event.keys /\ ~event.post_to_slack)
       => /\ NamesOf(journal, "posted") = <<>>
          /\ status_pc = "done"
             => NamesOf(journal, "computed") = <<"accounts", "tax", "projects", "itemized">>

\* a run that posted its three messages
C24_Witness ==
    /\ status_pc = "done"
    /\ NamesOf(journal, "posted") = <<"accounts", "projects", "itemized">>
    /\ Len(journal) = 7
    /\ journal[5].tax = 1

----------------------------------------------------------------------------
(* The frame of the EC2-Other breakdown *)

\* the sum of the positive amounts of a project's breakdown groups that are
\* categorised under a name
RECURSIVE SumOfCategory(_, _, _)
SumOfCategory(groups, projectid, name) ==
    IF groups = <<>> THEN 0
    ELSE (IF /\ Head(groups).Keys[1] = projectid
             /\ categorize_ec2_other_usage_type(Head(groups).Keys[2]) = name
             /\ Head(groups).Amount > 0
          THEN Head(groups).Amount ELSE 0)
         + SumOfCategory(Tail(groups), projectid, name)

\* the groups of the breakdown answer; none when the query failed
BreakdownGroups ==
    IF breakdown_response.error = "" THEN AllGroups(breakdown_response.ResultsByTime)
    ELSE <<>>

\* the sub-category names the answer holds for a project with a positive amount
CategoriesOf(projectid) ==
    {categorize_ec2_other_usage_type(BreakdownGroups[i].Keys[2]) :
        i \in {j \in 1..Len(BreakdownGroups) :
                  BreakdownGroups[j].Keys[1] = projectid /\ BreakdownGroups[j].Amount > 0}}

\* the project's "EC2 - Other" total is positive and the breakdown has a
\* positive sub-category amount for it
IsBrokenDown(projectid) ==
    /\ breakdown_ec2_other
    /\ SumOfPair(AllGroups(service_results), projectid, EC2_OTHER) > 0
    /\ CategoriesOf(projectid) # {}

\* the names of the services of an entry of the totals
NamesIn(entry) == {entry.services[j].name : j \in 1..Len(entry.services)}

\* the services fetched for a project
FetchedServices(projectid) ==
    {s \in {AllGroups(service_results)[i].Keys[2] : i \in 1..Len(AllGroups(service_results))} :
        PairFetched(projectid, s)}

(* C23: with the EC2-Other breakdown enabled, the totals of a project     *)
(* whose "EC2 - Other" total is positive and for which the breakdown      *)
(* returned a positive sub-category amount hold no "EC2 - Other" and hold *)
(* each sub-category with its summed amount; every other entry of that    *)
(* project, and every entry of every other project ("EC2 - Other"         *)
(* included), is the entry of the totals without breakdown: the sum of    *)
(* the pair's fetched amounts.  A breakdown that fails or returns nothing *)
(* for a project leaves the project unchanged.                            *)
C23_BreakdownFrame ==
    (breakdown_ec2_other /\ itemized_totals.status = "returned")
    => \A p \in 1..Len(itemized_totals.totals) :
          LET entry == itemized_totals.totals[p]
              fetched == FetchedServices(entry.project)
          IN  IF IsBrokenDown(entry.project)
              THEN /\ NamesIn(entry) = (fetched \ {EC2_OTHER}) \cup CategoriesOf(entry.project)
                   /\ \A name \in NamesIn(entry) :
                         CostOf(entry.services, name)
                           = SumOfPair(AllGroups(service_results), entry.project, name)
                             + SumOfCategory(BreakdownGroups, entry.project, name)
              ELSE /\ NamesIn(entry) = fetched
                   /\ \A name \in fetched :
                         CostOf(entry.services, name)
                           = SumOfPair(AllGroups(service_results), entry.project, name)

\* one project is broken down and another one, without a sub-category in the
\* answer, keeps its "EC2 - Other"
C23_Witness ==
    /\ breakdown_ec2_other
    /\ itemized_totals.status = "returned"
    /\ IsBrokenDown(ProjectA)
    /\ ~IsBrokenDown(ProjectB)
    /\ \E a, b \in 1..Len(itemized_totals.totals) :
          /\ itemized_totals.totals[a].project = ProjectA
          /\ EC2_OTHER \notin NamesIn(itemized_totals.totals[a])
          /\ CostOf(itemized_totals.totals[a].services,
                    "EC2 - NAT Gateway Hours (NatGateway-Hours)") = 1
          /\ CostOf(itemized_totals.totals[a].services, "Tax") = 3
          /\ itemized_totals.totals[b].project = ProjectB
          /\ CostOf(itemized_totals.totals[b].services, EC2_OTHER) = 2

----------------------------------------------------------------------------
(* The cost functions of the project-details script:                      *)
(* scripts/get_project_details.py, _get_project_account_costs and         *)
(* _get_project_service_costs.                                            *)

\* the most periods of a page and the most pages of a query
MaxScriptPeriods == 2
MaxScriptPages == 2

\* the groups of a period: a project's cost under one and under another
\* second key (account or service)
ScriptPeriods ==
    {[Groups |-> <<>>],
     [Groups |-> <<[Keys |-> <<ProjectA, "k1">>, Amount |-> 1]>>],
     [Groups |-> <<[Keys |-> <<ProjectA, "k1">>, Amount |-> 1],
                   [Keys |-> <<ProjectA, "k2">>, Amount |-> 2]>>]}

ScriptPageResults == UNION {[1..n -> ScriptPeriods] : n \in 0..MaxScriptPeriods}

\* the answers to the requests of one query: every page but the last one
\* names a next page
ScriptChains ==
    {c \in UNION {[1..n -> [ResultsByTime : ScriptPageResults,
                            NextPageToken : {NoToken, Token("t1")}]] :
                      n \in 1..MaxScriptPages} :
        \A i \in 1..Len(c) : HasNextPage(c[i]) <=> i < Len(c)}

\* the while loop: the periods of the pages after page i
RECURSIVE FollowingPages(_, _)
FollowingPages(chain, i) ==
    IF ~HasNextPage(chain[i]) THEN <<>>
    ELSE chain[i + 1].ResultsByTime \o FollowingPages(chain, i + 1)

\* project[key] += amount for the groups of at least two keys
ScriptAddGroup(c, group) ==
    IF Len(group.Keys) >= MIN_GROUP_KEYS_COUNT
    THEN ItemizedAdd(c, group.Keys[1], group.Keys[2], group.Amount)
    ELSE c

RECURSIVE ScriptAddGroups(_, _, _)
ScriptAddGroups(c, groups, i) ==
    IF i > Len(groups) THEN c
    ELSE ScriptAddGroups(ScriptAddGroup(c, groups[i]), groups, i + 1)

RECURSIVE ScriptAddPeriods(_, _, _)
ScriptAddPeriods(c, periods, i) ==
    IF i > Len(periods) THEN c
    ELSE ScriptAddPeriods(ScriptAddGroups(c, periods[i].Groups, 1), periods, i + 1)

\* all_results["ResultsByTime"].extend(response["ResultsByTime"])
FirstPageExtended(page) == [error |-> "", periods |-> page.ResultsByTime]

\* {"ResultsByTime": [response["ResultsByTime"][0]]}
FirstPeriodOnly(page) ==
    IF page.ResultsByTime = <<>> THEN [error |-> "IndexError", periods |-> <<>>]
    ELSE [error |-> "", periods |-> <<page.ResultsByTime[1]>>]

\* the costs of a query whose first page gave `first`
ScriptCosts(chain, first) ==
    IF first.error # "" THEN [status |-> "raised", error |-> first.error, costs |-> <<>>]
    ELSE [status |-> "returned", error |-> "",
          costs |-> ScriptAddPeriods(<<>>, first.periods \o FollowingPages(chain, 1), 1)]

get_project_account_costs(chain) == ScriptCosts(chain, FirstPageExtended(chain[1]))

get_project_service_costs(chain) == ScriptCosts(chain, FirstPeriodOnly(chain[1]))

InitScript ==
    /\ script_pages \in ScriptChains
    /\ project_accounts = ScriptNotCalled
    /\ project_services = ScriptNotCalled
    /\ CoreIdle /\ OutsideScriptIdle

GetProjectAccountCosts ==
    /\ project_accounts.status = "none"
    /\ project_accounts' = get_project_account_costs(script_pages)
    /\ UNCHANGED <<script_pages, project_services, exceptScript>>

GetProjectServiceCosts ==
    /\ project_services.status = "none"
    /\ project_services' = get_project_service_costs(script_pages)
    /\ UNCHANGED <<script_pages, project_accounts, exceptScript>>

NextScript == GetProjectAccountCosts \/ GetProjectServiceCosts

SpecScript == InitScript /\ [][NextScript]_vars

\* the periods of all pages of the query, in order
RECURSIVE PeriodsOfPages(_)
PeriodsOfPages(chain) ==
    IF chain = <<>> THEN <<>> ELSE Head(chain).ResultsByTime \o PeriodsOfPages(Tail(chain))

\* the costs hold every pair of keys of the pages with the sum of its
\* amounts over every period of every page
HoldsAllSums(outcome) ==
    /\ outcome.status = "returned"
    /\ LET groups == AllGroups(PeriodsOfPages(script_pages))
       IN  \A i \in 1..Len(groups) :
              LET p == ProjectIndex(outcome.costs, groups[i].Keys[1])
              IN  /\ p # 0
                  /\ CostOf(outcome.costs[p].services, groups[i].Keys[2])
                       = SumOfPair(groups, groups[i].Keys[1], groups[i].Keys[2])

(* C28: _get_project_service_costs returns for every (project, service)   *)
(* pair the sum of the pair's amounts over every period of every page,    *)
(* the first page included in full, as _get_project_account_costs does    *)
(* for the (project, account) pairs.                                      *)
C28_ServiceCostsAllPages ==
    /\ project_accounts.status # "none" => HoldsAllSums(project_accounts)
    /\ project_services.status # "none" => HoldsAllSums(project_services)

\* the account costs alone hold every sum
C28_AccountCostsAllPages ==
    project_accounts.status # "none" => HoldsAllSums(project_accounts)

----------------------------------------------------------------------------
(* The names of the EC2-Other usage types:                                *)
(* pacioli.managers.categorize_ec2_other_usage_type over                  *)
(* EC2_OTHER_USAGE_TYPE_MAPPING.  A usage type and a pattern are the      *)
(* sequences of their characters.                                         *)

\* the table, in the order of the dict
EC2_OTHER_USAGE_TYPE_MAPPING ==
    <<[pattern |->
         <<"D", "a", "t", "a", "T", "r", "a", "n", "s", "f", "e", "r", "-", "I", "n", "-", "B", "y", "t", "e", "s">>,
      description |-> "EC2 - Data Transfer In"],
     [pattern |->
         <<"D", "a", "t", "a", "T", "r", "a", "n", "s", "f", "e", "r", "-", "O", "u", "t", "-", "B", "y", "t", "e", "s">>,
      description |-> "EC2 - Data Transfer Out"],
     [pattern |->
         <<"D", "a", "t", "a", "T", "r", "a", "n", "s", "f", "e", "r">>,
      description |-> "EC2 - Data Transfer"],
     [pattern |->
         <<"D", "a", "t", "a", "T", "r", "a", "n", "s", "f", "e", "r", "-", "R", "e", "g", "i", "o", "n", "a", "l", "-", "B", "y", "t", "e", "s">>,
      description |-> "EC2 - Regional Data Transfer"],
     [pattern |->
         <<"D", "a", "t", "a", "T", "r", "a", "n", "s", "f", "e", "r", "-", "I", "n", "t", "e", "r", "Z", "o", "n", "e", "-", "I", "n">>,
      description |-> "EC2 - Inter-AZ Data Transfer In"],
     [pattern |->
         <<"D", "a", "t", "a", "T", "r", "a", "n", "s", "f", "e", "r", "-", "I", "n", "t", "e", "r", "Z", "o", "n", "e", "-", "O", "u", "t">>,
      description |-> "EC2 - Inter-AZ Data Transfer Out"],
     [pattern |->
         <<"E", "l", "a", "s", "t", "i", "c", "I", "P", ":", "I", "d", "l", "e", "A", "d", "d", "r", "e", "s", "s">>,
      description |-> "EC2 - Elastic IP (Idle)"],
     [pattern |->
         <<"E", "l", "a", "s", "t", "i", "c", "I", "P", ":", "A", "d", "d", "i", "t", "i", "o", "n", "a", "l", "A", "d", "d", "r", "e", "s", "s">>,
      description |-> "EC2 - Elastic IP (Additional)"],
     [pattern |->
         <<"N", "a", "t", "G", "a", "t", "e", "w", "a", "y", "-", "H", "o", "u", "r", "s">>,
      description |-> "EC2 - NAT Gateway Hours"],
     [pattern |->
         <<"N", "a", "t", "G", "a", "t", "e", "w", "a", "y", "-", "B", "y", "t", "e", "s">>,
      description |-> "EC2 - NAT Gateway Data Processing"],
     [pattern |->
         <<"V", "p", "c", "E", "n", "d", "p", "o", "i", "n", "t", "-", "H", "o", "u", "r", "s">>,
      description |-> "EC2 - VPC Endpoint Hours"],
     [pattern |->
         <<"V", "p", "c", "E", "n", "d", "p", "o", "i", "n", "t", "-", "B", "y", "t", "e", "s">>,
      description |-> "EC2 - VPC Endpoint Data Processing"],
     [pattern |->
         <<"L", "o", "a", "d", "B", "a", "l", "a", "n", "c", "e", "r", "U", "s", "a", "g", "e">>,
      description |-> "EC2 - Load Balancer Usage"],
     [pattern |->
         <<"E", "B", "S", "O", "p", "t", "i", "m", "i", "z", "e", "d">>,
      description |-> "EC2 - EBS Optimized"],
     [pattern |->
         <<"D", "e", "d", "i", "c", "a", "t", "e", "d", "U", "s", "a", "g", "e">>,
      description |-> "EC2 - Dedicated Host"],
     [pattern |->
         <<"S", "p", "o", "t", "U", "s", "a", "g", "e">>,
      description |-> "EC2 - Spot Instance Usage"],
     [pattern |->
         <<"I", "n", "s", "t", "a", "n", "c", "e", "S", "t", "o", "r", "e">>,
      description |-> "EC2 - Instance Store"],
     [pattern |->
         <<"U", "n", "k", "n", "o", "w", "n">>,
      description |-> "EC2 - Other (Unknown)"]>>

UpperLetters == <<"A", "B", "C", "D", "E", "F", "G", "H", "I", "J", "K", "L", "M", "N", "O", "P", "Q", "R", "S", "T", "U", "V", "W", "X", "Y", "Z">>

LowerLetters == <<"a", "b", "c", "d", "e", "f", "g", "h", "i", "j", "k", "l", "m", "n", "o", "p", "q", "r", "s", "t", "u", "v", "w", "x", "y", "z">>

\* str.lower()
LowerChar(ch) ==
    IF \E i \in 1..Len(UpperLetters) : UpperLetters[i] = ch
    THEN LowerLetters[CHOOSE i \in 1..Len(UpperLetters) : UpperLetters[i] = ch]
    ELSE ch

Lower(s) == [i \in 1..Len(s) |-> LowerChar(s[i])]

\* pattern in text
IsIn(pattern, text) ==
    \E i \in 0..(Len(text) - Len(pattern)) : SubSeq(text, i + 1, i + Len(pattern)) = pattern

\* the for loop: the first entry from position i on whose pattern is in the
\* usage type, 0 if there is none
RECURSIVE FirstMatch(_, _)
FirstMatch(usage, i) ==
    IF i > Len(EC2_OTHER_USAGE_TYPE_MAPPING) THEN 0
    ELSE IF IsIn(Lower(EC2_OTHER_USAGE_TYPE_MAPPING[i].pattern), Lower(usage)) THEN i
    ELSE FirstMatch(usage, i + 1)

\* the description and the usage type of f"{description} ({usage_type})"
CategorizeUsageType(usage) ==
    LET i == FirstMatch(usage, 1)
    IN  [computed |-> TRUE,
         description |-> IF i = 0 THEN "EC2 - Other"
                         ELSE EC2_OTHER_USAGE_TYPE_MAPPING[i].description,
         usage_type |-> usage]

\* the region prefixes of the usage types of a bill
RegionPrefixes ==
    {<<>>, <<"A", "P", "N", "1", "-">>, <<"U", "S", "E", "1", "-">>, <<"E", "U", "W", "2", "-">>}

\* the usage types tried: every pattern as it is and behind a region prefix,
\* and usage types outside the table
UsageTypes ==
    {prefix \o EC2_OTHER_USAGE_TYPE_MAPPING[i].pattern :
        prefix \in RegionPrefixes, i \in 1..Len(EC2_OTHER_USAGE_TYPE_MAPPING)}
    \cup {<<"E", "B", "S", ":", "V", "o", "l", "u", "m", "e", "U", "s", "a", "g", "e", ".", "g", "p", "3">>,
          <<"n", "a", "t", "g", "a", "t", "e", "w", "a", "y", "-", "h", "o", "u", "r", "s">>}

InitUsage ==
    /\ ec2_usage_type \in UsageTypes
    /\ detailed_name = NotCategorized
    /\ CoreIdle /\ OutsideUsageIdle

CategorizeEc2OtherUsageType ==
    /\ ~detailed_name.computed
    /\ detailed_name' = CategorizeUsageType(ec2_usage_type)
    /\ UNCHANGED <<ec2_usage_type, exceptUsage>>

NextUsage == CategorizeEc2OtherUsageType

SpecUsage == InitUsage /\ [][NextUsage]_vars

(* C29: a usage type equal to the pattern of an entry of the table is     *)
(* categorised under the description of that entry: no entry is shadowed  *)
(* by an earlier entry whose pattern is a substring of its own.           *)
C29_OwnDescription ==
    detailed_name.computed
    => \A i \in 1..Len(EC2_OTHER_USAGE_TYPE_MAPPING) :
          ec2_usage_type = EC2_OTHER_USAGE_TYPE_MAPPING[i].pattern
          => detailed_name.description = EC2_OTHER_USAGE_TYPE_MAPPING[i].description

----------------------------------------------------------------------------
(* The total of a ProjectServicesCost object:                             *)
(* pacioli.definitions.ProjectServicesCost.total_cost                     *)

\* the most services of an object
MaxServices == 3

\* the services an object may be given
ServiceCosts ==
    {[name |-> "Amazon Simple Storage Service", cost |-> 1], [name |-> EC2_OTHER, cost |-> 2]}

ServiceLists == UNION {[1..n -> ServiceCosts] : n \in 0..MaxServices}

\* _total_cost: float | None = None
NoTotal == -1

\* ProjectServicesCost(raw_id=..., services=[...])
InitCost ==
    /\ project_services_cost \in
           {[services |-> s, total_cost |-> NoTotal] : s \in ServiceLists}
    /\ last_access = [op |-> "init", value |-> NoTotal]
    /\ CoreIdle /\ OutsideCostIdle

\* the property total_cost: the cached value if there is one, otherwise the
\* sum, which is cached
AfterAccess(object) ==
    IF object.total_cost # NoTotal THEN object
    ELSE [object EXCEPT !.total_cost = TotalCost(object.services)]

\* object.total_cost
TotalCostAccess ==
    /\ project_services_cost' = AfterAccess(project_services_cost)
    /\ last_access' = [op |-> "total_cost", value |-> project_services_cost'.total_cost]
    /\ UNCHANGED exceptCost

\* object.services = services_sorted_by_cost
AssignServices ==
    /\ \E s \in ServiceLists :
        project_services_cost' = [project_services_cost EXCEPT !.services = s]
    /\ last_access' = [op |-> "services", value |-> NoTotal]
    /\ UNCHANGED exceptCost

\* object.services.append(service_cost)
ExtendServices ==
    /\ Len(project_services_cost.services) < MaxServices
    /\ \E s \in ServiceCosts :
        project_services_cost' = [project_services_cost EXCEPT !.services = Append(@, s)]
    /\ last_access' = [op |-> "services", value |-> NoTotal]
    /\ UNCHANGED exceptCost

NextCost == TotalCostAccess \/ AssignServices \/ ExtendServices

SpecCost == InitCost /\ [][NextCost]_vars

\* the sum of the costs of a list of services
RECURSIVE SumOfCosts(_)
SumOfCosts(services) ==
    IF services = <<>> THEN 0
    ELSE services[Len(services)].cost + SumOfCosts(SubSeq(services, 1, Len(services) - 1))

(* C30: every access of total_cost gives the sum of the costs of the      *)
(* services the object holds at that access, also when the services were  *)
(* assigned or extended after an earlier access.                          *)
C30_TotalCostCurrent ==
    last_access.op = "total_cost"
    => last_access.value = SumOfCosts(project_services_cost.services)


(* ReportManager: the period boundaries of the reports of one instance *)

\* an argument of the constructor left at its default None
NotGiven == FullDate(0, 0, 0)

\* the generation datetimes and the boundaries given to the constructor
ManagerInstants ==
    {i \in Instants : i.year = LastYear /\ i.month \in {1, 3} /\ i.day \in {1, 15} /\ i.hour = 0}
GivenDates == {NotGiven, FullDate(LastYear, 2, 1), FullDate(LastYear, 2, 20)}

\* ReportManager.__init__: the boundaries are calculated only when none of
\* the three is given, and stored as they are otherwise
ReportManagerInit(generation_datetime, given_previous_month_start, given_current_month_start, given_most_recent_full_date) ==
    LET calculated == get_month_starts(generation_datetime)
        calculate == /\ given_previous_month_start = NotGiven
                     /\ given_current_month_start = NotGiven
                     /\ given_most_recent_full_date = NotGiven
    IN  [generation_datetime |-> generation_datetime,
         most_recent_full_date |->
             IF calculate THEN calculated.most_recent_full_date ELSE given_most_recent_full_date,
         current_month_start |->
             IF calculate THEN calculated.current_month_start ELSE given_current_month_start,
         previous_month_start |->
             IF calculate THEN calculated.previous_month_start ELSE given_previous_month_start]

ManagerReports == {"accounts", "projects", "tax", "itemized"}
NotRun == <<>>

\* CostManager._collect_account_cost: start.isoformat() of a None raises
CollectPeriod(start, end) ==
    IF start = NotGiven \/ end = NotGiven
    THEN [status |-> "raised", start |-> start, end |-> end]
    ELSE [status |-> "ok", start |-> start, end |-> end]

\* get_change_in_accounts and get_change_in_projects: the boundaries are
\* calculated again from the `now` they are given
ChangePeriod(date_now) ==
    LET calculated == get_month_starts(date_now)
    IN  CollectPeriod(calculated.previous_month_start, calculated.most_recent_full_date)

\* get_period_total_tax and get_projectid_itemized_totals of the manager
StoredPeriod(self) == CollectPeriod(self.current_month_start, self.most_recent_full_date)

InitManager ==
    /\ manager = <<>>
    /\ report_periods = [r \in ManagerReports |-> NotRun]
    /\ CoreIdle /\ OutsideManagerIdle

Construct ==
    /\ manager = <<>>
    /\ \E generation_datetime \in ManagerInstants,
          given_previous_month_start \in GivenDates,
          given_current_month_start \in GivenDates,
          given_most_recent_full_date \in GivenDates :
            manager' = ReportManagerInit(generation_datetime, given_previous_month_start,
                                         given_current_month_start, given_most_recent_full_date)
    /\ UNCHANGED <<report_periods, exceptManager>>

AccountsReportBoundaries ==
    /\ manager # <<>> /\ report_periods["accounts"] = NotRun
    /\ report_periods' =
         [report_periods EXCEPT !["accounts"] = ChangePeriod(manager.generation_datetime)]
    /\ UNCHANGED <<manager, exceptManager>>

ProjectidReportBoundaries ==
    /\ manager # <<>> /\ report_periods["projects"] = NotRun
    /\ report_periods' =
         [report_periods EXCEPT !["projects"] = ChangePeriod(manager.generation_datetime)]
    /\ UNCHANGED <<manager, exceptManager>>

TaxBoundaries ==
    /\ manager # <<>> /\ report_periods["tax"] = NotRun
    /\ report_periods' = [report_periods EXCEPT !["tax"] = StoredPeriod(manager)]
    /\ UNCHANGED <<manager, exceptManager>>

ItemizedReportBoundaries ==
    /\ manager # <<>> /\ report_periods["itemized"] = NotRun
    /\ report_periods' = [report_periods EXCEPT !["itemized"] = StoredPeriod(manager)]
    /\ UNCHANGED <<manager, exceptManager>>

NextManager ==
    \/ Construct
    \/ AccountsReportBoundaries
    \/ ProjectidReportBoundaries
    \/ TaxBoundaries
    \/ ItemizedReportBoundaries

SpecManager == InitManager /\ [][NextManager]_vars

(* C27: the most_recent_full_date and the previous_month_start used by    *)
(* the account and project change reports of one ReportManager equal the  *)
(* ones stored on the instance, and the most_recent_full_date equals the  *)
(* one the tax and itemized reports used, also when boundaries were given *)
(* to the constructor, all of them or some.                               *)
C27_SameBoundaries ==
    \A r \in {"accounts", "projects"} :
        (manager # <<>> /\ report_periods[r] # NotRun)
        => /\ report_periods[r].end = manager.most_recent_full_date
           /\ report_periods[r].start = manager.previous_month_start
           /\ \A t \in {"tax", "itemized"} :
                  report_periods[t] # NotRun
                  => report_periods[t].end = report_periods[r].end

====
